---- MODULE Spec2Model ----
(***************************************************************************)
(* Model of the document assembly and page-resolution pipeline of          *)
(* pdf_helper_learning: PdfBuilder::render with its one or two layout      *)
(* passes, the page tracker, the section markers and the page decorator    *)
(* (src/src/builder.rs), the inline markup parser (src/src/richtext.rs),   *)
(* SectionBuilder (src/crates/pdf_helper/src/model.rs) and the outline     *)
(* writer apply_section_bookmarks (src/src/bookmarks.rs).                  *)
(*                                                                         *)
(* Heights are measured in hundredths of a millimetre.  The layout engine  *)
(* (genpdf) is external; it is modelled by its contract: an element is     *)
(* rendered into the remaining area of the page and reports the size it    *)
(* covered and a has_more flag.  The PDF writer behind document.render is  *)
(* external too: of its output the model keeps the pages and what was      *)
(* placed on them, not the encoding.                                       *)
(***************************************************************************)
EXTENDS Integers, Sequences, FiniteSets, TLC

\* ---------------------------------------------------------------- bounds
MaxSections == 2
\* Additions to a default builder: the blocks of the whole document, their
\* captions, the cover, its subtitle and its identifier, and the page
\* settings changed.
MaxBlocks == 2
\* Lines of a body paragraph.
ParagraphLines == 2
\* Height of the printable area of a page, in body-text lines.
PageHeight == 7
\* Pages of one pass: a render that opens page after page without end (an
\* image whose caption never finds room below it) is followed this far.
MaxPages == 12
\* Points of one body-text line.
LinePoints == 10

\* ------------------------------------------------------------ font sizes
HeadingFontSize == 18
TocTitleFontSize == 20
CoverTitleFontSize == 28
SubtitleFontSize == 18

\* Height, in body-text lines, of one line of text set at the given size.
LineHeight(font_size) == (font_size + LinePoints - 1) \div LinePoints
\* Height of a decoded image block, in body-text lines.
ImageHeight == ParagraphLines + 1
\* DEFAULT_CAPTION_SPACING_MM
CaptionSpacing == 2

\* --------------------------------------------------------------- Option
None == <<>>
Some(v) == <<v>>
IsSome(o) == o # <<>>
Unwrap(o) == o[1]

Min(a, b) == IF a < b THEN a ELSE b

RECURSIVE SeqsUpTo(_, _)
SeqsUpTo(S, n) ==
    IF n = 0 THEN {<<>>}
    ELSE LET shorter == SeqsUpTo(S, n - 1)
         IN shorter \cup {Append(s, x) : s \in {t \in shorter : Len(t) = n - 1}, x \in S}

\* ----------------------------------------------------------- content model
\* Block: Paragraph (a number of body lines), Image (its height and its
\* caption, an Option of a paragraph of one line), PageBreak.
Blocks ==
    { [kind |-> "Paragraph", lines |-> ParagraphLines],
      [kind |-> "Image", lines |-> ImageHeight, caption |-> None],
      [kind |-> "Image", lines |-> ImageHeight, caption |-> Some(1)],
      [kind |-> "PageBreak", lines |-> 0] }

\* What a list of blocks adds to a document: the blocks and their captions.
Cost(blocks) ==
    Len(blocks)
    + Cardinality({j \in DOMAIN blocks :
                     blocks[j].kind = "Image" /\ IsSome(blocks[j].caption)})

\* The lists of blocks of a section or of a cover.
BlockLists == {blocks \in SeqsUpTo(Blocks, MaxBlocks) : Cost(blocks) <= MaxBlocks}

RECURSIVE BlockCount(_)
BlockCount(ss) == IF ss = <<>> THEN 0 ELSE Cost(Head(ss)) + BlockCount(Tail(ss))

\* Lists of n sections adding at most t together.  A section is the ordered
\* list of its blocks; its position is its title.
RECURSIVE SectionLists(_, _)
SectionLists(n, t) ==
    IF n = 0 THEN {<<>>}
    ELSE {Append(p[1], p[2]) :
            p \in {q \in SectionLists(n - 1, t) \X BlockLists :
                     BlockCount(q[1]) + Cost(q[2]) <= t}}

Sections == UNION {SectionLists(n, MaxBlocks) : n \in 0..MaxSections}

\* A Cover: the title is always there; subtitle and identifier are present or
\* not; blocks.
Covers == [subtitle : BOOLEAN, identifier : BOOLEAN, blocks : BlockLists]

\* What a content adds to empty sections: the blocks and their captions, and
\* the cover with its subtitle and its identifier.
Items(c) ==
    BlockCount(c.sections)
    + (IF IsSome(c.cover)
       THEN 1 + Cost(Unwrap(c.cover).blocks)
            + (IF Unwrap(c.cover).subtitle THEN 1 ELSE 0)
            + (IF Unwrap(c.cover).identifier THEN 1 ELSE 0)
       ELSE 0)

\* with_cover and with_sections: no cover or a Cover, and the sections.
Contents ==
    LET sections == {<<BlockCount(ss), ss>> : ss \in Sections}
        covers == {<<Items([cover |-> Some(cover), sections |-> <<>>]), cover>> :
                     cover \in Covers}
    IN {[cover |-> None, sections |-> ss] : ss \in Sections}
       \cup {[cover |-> Some(p[1][2]), sections |-> p[2][2]] :
               p \in {q \in covers \X sections : q[1][1] + q[2][1] <= MaxBlocks}}

\* Height of the footer show_footer installs, in mm.
FooterHeight == 12

\* Height of one body-text line in hundredths of a millimetre, the unit of
\* every length of the layout (a millimetre is 100).
BodyLine == 420

\* with_paper_size, with_margins, show_header, show_footer and
\* enable_hyphenation.  paper_size is the height of the printable area of the
\* chosen paper and margins the top and the bottom margin together, both in
\* hundredths of a millimetre.  None is the default paper, which holds PageHeight
\* body lines; the paper chosen holds two lines, which is too little for a
\* cover title or a footer; the margins take two lines.
Decorations ==
    [paper_size : {None, Some(2 * BodyLine)},
     margins : {None, Some(2 * BodyLine)},
     show_header : BOOLEAN,
     show_footer : BOOLEAN,
     enable_hyphenation : BOOLEAN]

\* The settings of d that differ from PdfBuilder::default().
Changed(d) ==
    Cardinality({k \in {"paper_size", "margins"} : IsSome(d[k])}
                \cup {k \in {"show_header", "show_footer", "enable_hyphenation"} : d[k]})

\* The builder of the crate's usage example: header and footer shown, a
\* cover with one paragraph, one section with one paragraph, each paragraph
\* a single line of text.
ExampleBuilder ==
    [paper_size |-> None,
     margins |-> None,
     show_header |-> TRUE,
     show_footer |-> TRUE,
     enable_hyphenation |-> FALSE,
     cover |-> Some([subtitle |-> FALSE, identifier |-> FALSE,
                     blocks |-> <<[kind |-> "Paragraph", lines |-> 1]>>]),
     sections |-> <<<<[kind |-> "Paragraph", lines |-> 1]>>>>,
     include_toc |-> FALSE,
     render_section_headings |-> TRUE,
     collect_section_pages |-> FALSE]

\* PdfBuilder fields that drive the pipeline.  The builders rendered are the
\* default builder with at most MaxBlocks additions, where an addition is a
\* block, a cover, its subtitle or identifier, or a changed page setting
\* (the number of sections and the three flags are free), and the builder
\* of the usage example.
PdfBuilder ==
    LET decorations == {<<Changed(d), d>> : d \in Decorations}
        contents == {<<Items(c), c>> : c \in Contents}
    IN {ExampleBuilder} \cup
       {[paper_size |-> p[1][2].paper_size,
         margins |-> p[1][2].margins,
         show_header |-> p[1][2].show_header,
         show_footer |-> p[1][2].show_footer,
         enable_hyphenation |-> p[1][2].enable_hyphenation,
         cover |-> p[2][2].cover,
         sections |-> p[2][2].sections,
         include_toc |-> flags[1],
         render_section_headings |-> flags[2],
         collect_section_pages |-> flags[3]] :
           p \in {q \in decorations \X contents : q[1][1] + q[2][1] <= MaxBlocks},
           flags \in BOOLEAN \X BOOLEAN \X BOOLEAN}

VARIABLES
    builder,          \* the PdfBuilder being rendered
    pc,               \* position inside PdfBuilder::render
    pass,             \* "none", "discovery" or "final"
    passes,           \* the passes started so far, in order
    failures,         \* the errors raised by passes so far, in order
    tracker,          \* Option<PageTracker> of the discovery pass
    final_tracker,    \* Option<PageTracker> of the final pass
    recorded_pages,   \* local recorded_pages of render
    elements,         \* elements pushed into the genpdf document of this pass
    render_idx,       \* LinearLayout::render_idx (1-based)
    rem,              \* what is left of the element at render_idx
    recorded,         \* positions of the markers whose recorded flag is set
    page,             \* ConfiguredPageDecorator::page
    area,             \* remaining height of the current page
    used,             \* size the root layout covered on the current page
    has_more,         \* the root layout reported has_more on the current page
    drawn,            \* first page on which each element drew something or, for a
                      \* marker, was rendered (0: none)
    result,           \* what render returned
    input,            \* the bytes handed to parse_markup
    parsed,           \* what parse_markup returned
    section_builder,  \* the SectionBuilder a caller is filling
    pushed,           \* the blocks the caller handed to the builder, in order
    section,          \* Option<Section>: what SectionBuilder::build returned
    pdf_bytes,        \* the bytes handed to apply_section_bookmarks
    sections,         \* the sections handed to apply_section_bookmarks
    section_pages,    \* the recorded pages handed to apply_section_bookmarks
    bm_pc,            \* position inside apply_section_bookmarks
    document,         \* the lopdf Document loaded from pdf_bytes
    page_map,         \* local pages: document.get_pages()
    outline_entries,  \* local outline_entries
    outlines_id,      \* local outlines_id (Option<ObjectId>)
    bm_result,        \* what apply_section_bookmarks returned
    decorator,        \* a ConfiguredPageDecorator driven page by page
    decorated         \* its last decorate_page call: what the header and footer
                      \* elements reported and what the call returned

pipeline_vars ==
    <<builder, pc, pass, passes, failures, tracker, final_tracker, recorded_pages, elements,
      render_idx, rem, recorded, page, area, used, has_more, drawn, result>>

\* --------------------------------------------------------------- PageTracker
\* Mutant: one slot too few.
PageTracker_new_short(section_count) ==
    [current_page |-> 0, section_pages |-> [i \in 1..(section_count - 1) |-> None]]

PageTracker_new(section_count) ==
    [current_page |-> 0, section_pages |-> [i \in 1..section_count |-> None]]

\* Mutant: the page callback's notification is dropped.
set_current_page_dropped(t, p) == t

\* Mutant: the tracker is told the number of the page before.
set_current_page_previous(t, p) == [t EXCEPT !.current_page = p - 1]

set_current_page(t, p) == [t EXCEPT !.current_page = p]

\* Mutant: marks every section up to index with the current page, written
\* or not.
mark_section_overwriting(t, index) ==
    [t EXCEPT !.section_pages =
        [i \in DOMAIN @ |-> IF i <= index + 1 THEN Some(t.current_page) ELSE @[i]]]

\* index is 0-based as in the source; slots are stored 1-based.
mark_section(t, index) ==
    IF index + 1 \in DOMAIN t.section_pages
    THEN IF t.section_pages[index + 1] = None
         THEN [t EXCEPT !.section_pages[index + 1] = Some(t.current_page)]
         ELSE t
    ELSE t

pages(t) == t.section_pages

\* --------------------------------------------------------- render's locals
section_count(b) == Len(b.sections)
need_toc(b) == b.include_toc /\ section_count(b) > 0
need_tracking(b) == b.collect_section_pages \/ need_toc(b)

\* Mutant: the final pass is handed the tracker of the discovery pass.
new_final_tracker_shared(b) == tracker

new_final_tracker(b) ==
    IF need_tracking(b) /\ section_count(b) > 0
    THEN Some(PageTracker_new(section_count(b)))
    ELSE IF b.collect_section_pages /\ section_count(b) > 0
         THEN Some(PageTracker_new(section_count(b)))
         ELSE None

final_toc_pages(b, rec) == IF need_toc(b) THEN Some(rec) ELSE None

\* ------------------------------------------------------------------ elements
\* An element handed to the layout engine.  lines counts lines of text, each
\* lh body-text lines high; of a Break it counts quarters of a body-text
\* line (LineBreak::new of 0.75 is 3, of 1.0 is 4, of 1.5 is 6).  sec is the
\* 1-based section it belongs to (0: cover or table of contents), index the 0-based section
\* index carried by a SectionMarker, titles and cells the left-hand and the
\* right-hand cells of the rows of the table of contents.
Element(kind, lines, lh, role, sec) ==
    [kind |-> kind, lines |-> lines, lh |-> lh, role |-> role, sec |-> sec,
     index |-> 0, titles |-> <<>>, cells |-> <<>>, caption |-> 0]

SectionMarker_new(index) ==
    [Element("SectionMarker", 0, 0, "marker", index + 1) EXCEPT !.index = index]

\* build_image: the CaptionedImage of an Image block; caption is the number
\* of lines of its caption paragraph, which is empty for a block without one.
build_image(block, role, sec) ==
    [Element("Image", block.lines, 1, role, sec)
        EXCEPT !.caption = IF IsSome(block.caption) THEN Unwrap(block.caption) ELSE 0]

\* build_paragraph / build_image / PageBreak::new for one block.
push_block(block, role, sec) ==
    IF block.kind = "Paragraph" THEN <<Element("Paragraph", block.lines, 1, role, sec)>>
    ELSE IF block.kind = "Image" THEN <<build_image(block, role, sec)>>
    ELSE <<Element("PageBreak", 0, 0, role, sec)>>

\* Mutant: the blocks are pushed last first.
RECURSIVE push_section_blocks_reversed(_, _, _)
push_section_blocks_reversed(blocks, role, sec) ==
    IF blocks = <<>> THEN <<>>
    ELSE push_section_blocks_reversed(Tail(blocks), role, sec)
         \o push_block(Head(blocks), role, sec)

RECURSIVE push_section_blocks(_, _, _)
push_section_blocks(blocks, role, sec) ==
    IF blocks = <<>> THEN <<>>
    ELSE push_block(Head(blocks), role, sec) \o push_section_blocks(Tail(blocks), role, sec)

\* build_image is reached for every Image block, of the cover and of the
\* sections; each decode may fail.
has_image(b) ==
    \/ /\ IsSome(b.cover)
       /\ \E j \in DOMAIN Unwrap(b.cover).blocks : Unwrap(b.cover).blocks[j].kind = "Image"
    \/ \E i \in DOMAIN b.sections :
           \E j \in DOMAIN b.sections[i] : b.sections[i][j].kind = "Image"

\* The title and the line break after it, the subtitle and the identifier,
\* each with its line break, then the blocks of the cover.
push_cover(cover) ==
    <<Element("Paragraph", 1, LineHeight(CoverTitleFontSize), "cover", 0),
      Element("Break", 6, 1, "cover", 0)>>
    \o (IF cover.subtitle
        THEN <<Element("Paragraph", 1, LineHeight(SubtitleFontSize), "cover_subtitle", 0),
               Element("Break", 4, 1, "cover_subtitle", 0)>>
        ELSE <<>>)
    \o (IF cover.identifier
        THEN <<Element("Paragraph", 1, 1, "cover_identifier", 0),
               Element("Break", 4, 1, "cover_identifier", 0)>>
        ELSE <<>>)
    \o push_section_blocks(cover.blocks, "cover_block", 0)

\* Mutant: every page cell shows the placeholder.
toc_cell_placeholder(p) == <<"--">>

\* The text of a table-of-contents page cell.
toc_cell(p) == IF IsSome(p) THEN <<"page", Unwrap(p)>> ELSE <<"--">>

push_toc(b, toc_pages) ==
    LET pgs == IF IsSome(toc_pages) THEN Unwrap(toc_pages)
               ELSE [i \in 1..Len(b.sections) |-> None]
        rows == Min(Len(b.sections), Len(pgs))
        \* section.title(): the title of a section is its position.
        table == [Element("TableLayout", rows, 1, "toc", 0)
                    EXCEPT !.titles = [i \in 1..rows |-> i],
                           !.cells = [i \in 1..rows |-> toc_cell(pgs[i])]]
    IN <<Element("Paragraph", 1, LineHeight(TocTitleFontSize), "toc_title", 0),
         Element("Break", 4, 1, "toc", 0),
         table,
         Element("PageBreak", 0, 0, "toc", 0)>>

push_section_heading(sec) ==
    <<Element("Paragraph", 1, LineHeight(HeadingFontSize), "heading", sec),
      Element("Break", 3, 1, "heading_break", sec)>>

\* Mutant: a marker is pushed only for a section that has blocks.
section_elements_marker_if_blocks(b, has_tracker, index) ==
    (IF has_tracker /\ b.sections[index + 1] # <<>>
     THEN <<SectionMarker_new(index)>> ELSE <<>>)
    \o (IF b.render_section_headings THEN push_section_heading(index + 1) ELSE <<>>)
    \o push_section_blocks(b.sections[index + 1], "block", index + 1)

\* One iteration of the section loop of populate_document (index is 0-based).
section_elements(b, has_tracker, index) ==
    (IF has_tracker THEN <<SectionMarker_new(index)>> ELSE <<>>)
    \o (IF b.render_section_headings THEN push_section_heading(index + 1) ELSE <<>>)
    \o push_section_blocks(b.sections[index + 1], "block", index + 1)

RECURSIVE sections_from(_, _, _)
sections_from(b, has_tracker, index) ==
    IF index >= Len(b.sections) THEN <<>>
    ELSE section_elements(b, has_tracker, index) \o sections_from(b, has_tracker, index + 1)

\* populate_document, lines 591-596: the cover and the page break after it.
cover_part(b) ==
    IF IsSome(b.cover)
    THEN push_cover(Unwrap(b.cover))
         \o (IF b.include_toc \/ b.sections # <<>>
             THEN <<Element("PageBreak", 0, 0, "cover", 0)>> ELSE <<>>)
    ELSE <<>>

\* Mutant: the table of contents is pushed only once its pages are known.
toc_part_when_known(b, toc_pages) ==
    IF b.include_toc /\ b.sections # <<>> /\ IsSome(toc_pages)
    THEN push_toc(b, toc_pages) ELSE <<>>

\* populate_document, lines 598-600: the table of contents.
toc_part(b, toc_pages) ==
    IF b.include_toc /\ b.sections # <<>> THEN push_toc(b, toc_pages) ELSE <<>>

\* populate_document: the elements pushed into the document, in order, or a
\* content error when an image does not decode.
populate_document(b, has_tracker, toc_pages, images_decode) ==
    [ok |-> has_image(b) => images_decode,
     elements |-> cover_part(b) \o toc_part(b, toc_pages) \o sections_from(b, has_tracker, 0)]

\* --------------------------------------------------------- layout contract
\* What is left to render of an element when the layout reaches it: lines
\* of a paragraph or table; quarter lines of a break; lines of the caption
\* of an image; cols of a PageBreak.
InitRem(es, i) ==
    IF i > Len(es) THEN 0
    ELSE IF es[i].kind = "PageBreak" THEN 1
    ELSE IF es[i].kind = "Image" THEN es[i].caption
    ELSE es[i].lines

\* Size: what an element covers.  The layout works on heights; of a width
\* it needs to know only whether it is zero.
Size(width, height) == [width |-> width, height |-> height]

\* Size::stack_vertical
stack_vertical(a, b) ==
    Size(IF a.width > b.width THEN a.width ELSE b.width, a.height + b.height)

\* Paragraph::render of a paragraph (or table) with r lines left, each lh
\* high, into avail: the lines that fit are drawn, has_more when some are
\* left.
Paragraph_render(r, lh, avail) ==
    LET k == IF avail > 0 THEN Min(r, avail \div lh) ELSE 0
    IN [size |-> Size(IF k > 0 THEN 1 ELSE 0, k * lh), rem |-> r - k, has_more |-> r - k > 0]

\* CaptionedImage::render with r lines of the caption left: the image is
\* drawn whole at the top of the area on every call, the caption below it
\* and the spacing; has_more is the caption's.
CaptionedImage_render(e, r, avail) ==
    LET image_result == [size |-> Size(1, e.lines * BodyLine), has_more |-> FALSE]
        spacing == CaptionSpacing * 100
        caption_result ==
            Paragraph_render(r, BodyLine, avail - (image_result.size.height + spacing))
    IN [size |-> stack_vertical(stack_vertical(image_result.size, Size(0, spacing)),
                                caption_result.size),
        rem |-> caption_result.rem,
        has_more |-> image_result.has_more \/ caption_result.has_more]

\* Element::render of the element e with r left of it into a page with
\* avail height left: the size covered, what is left, and has_more.  A
\* PageBreak reports a size that is not zero so that it may open a page.
ElementRender(e, r, avail) ==
    CASE e.kind \in {"Paragraph", "TableLayout"} ->
           Paragraph_render(r, e.lh * BodyLine, avail)
      [] e.kind = "Break" ->
           [size |-> Size(0, Min((r * BodyLine) \div 4, avail)), rem |-> 0, has_more |-> FALSE]
      [] e.kind = "Image" -> CaptionedImage_render(e, r, avail)
      [] e.kind = "PageBreak" ->
           [size |-> Size(IF r > 0 THEN 1 ELSE 0, 0), rem |-> 0, has_more |-> r > 0]
      [] OTHER ->
           [size |-> Size(0, 0), rem |-> 0, has_more |-> FALSE]

\* ------------------------------------------------------------ page decorator
\* Pages one decorator is driven through.
MaxDecorated == 2

\* What Element::render of a header or footer element can return for an
\* area of the given height: an error, or a size within the area with or
\* without overflow (has_more).
ElementResults(height) ==
    {[ok |-> FALSE, size |-> 0, has_more |-> FALSE]}
    \cup {[ok |-> TRUE, size |-> size, has_more |-> more] :
            size \in 0..height, more \in BOOLEAN}

\* Mutant: a page number is skipped.
next_page_skipping(page_number) == page_number + 2

\* self.page += 1
next_page(page_number) == page_number + 1

\* ConfiguredPageDecorator::decorate_page on an area of the given height.
\* self is the decorator: page, margins (Option: top plus bottom), header
\* (whether a factory is set), footer (Option: the fixed height) and
\* tracker (Option<PageTracker>); header_result and footer_result are what
\* the elements of the factories return from render.  Returns the decorator
\* as the call leaves it and Ok(area) or Err(error).
decorate_page(self, height, header_result, footer_result) ==
    LET page_number == next_page(self.page)
        after ==
            [self EXCEPT !.page = page_number,
                         !.tracker = IF IsSome(@)
                                     THEN Some(set_current_page(Unwrap(@), page_number))
                                     ELSE None]
        inside_margins == IF IsSome(self.margins) THEN height - Unwrap(self.margins) ELSE height
        below_header ==
            IF self.header THEN inside_margins - header_result.size ELSE inside_margins
        failed(error) == [self |-> after, status |-> "Err", area |-> 0, error |-> error]
    IN IF self.header /\ ~header_result.ok
       THEN failed("header element")
       ELSE IF self.footer = None
       THEN [self |-> after, status |-> "Ok", area |-> below_header, error |-> "none"]
       ELSE IF Unwrap(self.footer) > below_header
       THEN failed("Footer height exceeds available space")
       ELSE IF ~footer_result.ok
       THEN failed("footer element")
       ELSE IF footer_result.has_more
       THEN failed("Footer element does not fit into the reserved space")
       ELSE [self |-> after, status |-> "Ok",
             area |-> below_header - Unwrap(self.footer), error |-> "none"]

\* ConfiguredPageDecorator::new
ConfiguredPageDecorator_new(margins, header, footer, page_tracker) ==
    [page |-> 0, margins |-> margins, header |-> header, footer |-> footer,
     tracker |-> page_tracker]

\* The decorators DocumentBuilder::build can configure: margins or none, a
\* header or none, a footer of any height up to one line more than the
\* page or none, a tracker or none.
Decorators ==
    {ConfiguredPageDecorator_new(margins, header, footer, page_tracker) :
        margins \in {None, Some(2)},
        header \in BOOLEAN,
        footer \in {None} \cup {Some(h) : h \in 0..(PageHeight + 1)},
        page_tracker \in {None, Some(PageTracker_new(1))}}

NotDecorated ==
    [status |-> "none", area |-> 0, error |-> "none",
     header_result |-> [ok |-> TRUE, size |-> 0, has_more |-> FALSE],
     footer_result |-> [ok |-> TRUE, size |-> 0, has_more |-> FALSE]]

\* No decorator is driven outside of a render.
DecoratorIdle ==
    /\ decorator = ConfiguredPageDecorator_new(None, FALSE, None, None)
    /\ decorated = NotDecorated

\* ------------------------------------------------------------------ results
Ok(bytes, section_start_pages) ==
    [status |-> "Ok", bytes |-> Some(bytes),
     section_start_pages |-> Some(section_start_pages), error |-> "none"]
Err(kind) ==
    [status |-> "Err", bytes |-> None, section_start_pages |-> None, error |-> kind]
NoResult ==
    [status |-> "none", bytes |-> None, section_start_pages |-> None, error |-> "none"]

ActiveTracker == IF pass = "discovery" THEN tracker ELSE final_tracker

\* ============================================================ markup parser
\* A string is the sequence of its UTF-8 bytes (error messages are written
\* without their backquotes).  ASCII bytes are written as
\* the character; "C3" "A9" are the two bytes of the character e-acute.
MaxPieces == 4

EAcute == <<"C3", "A9">>
IsContinuation(b) == b = "A9"
\* len_utf8 of the character whose first byte is b.
len_utf8(b) == IF b = "C3" THEN 2 ELSE 1

ColorPrefix == <<"[", "c", "o", "l", "o", "r", "=">>
\* Bytes of the RGB field of a colour directive.
RgbFieldLen == 6
ColorDirective(hex) == ColorPrefix \o <<"#">> \o hex \o <<"]", "{">>

\* The fragments inputs are assembled from.
Pieces ==
    { <<"a">>, <<"{">>, EAcute, <<"*">>, <<"*", "*">>, <<"}">>, <<"[">>, <<"]">>,
      ColorDirective(<<"1", "2", "A", "b", "3", "4">>),
      ColorDirective(<<"1", "2", "F", "G", "3", "4">>) }

RECURSIVE Flatten(_)
Flatten(ps) == IF ps = <<>> THEN <<>> ELSE Head(ps) \o Flatten(Tail(ps))

Inputs == {Flatten(ps) : ps \in SeqsUpTo(Pieces, MaxPieces)}

\* input[index..].starts_with(token); index is a 0-based byte offset.
starts_with(inp, index, token) ==
    /\ index + Len(token) <= Len(inp)
    /\ SubSeq(inp, index + 1, index + Len(token)) = token

is_char_boundary(inp, index) ==
    \/ index = 0
    \/ index = Len(inp)
    \/ index < Len(inp) /\ ~IsContinuation(inp[index + 1])

DecDigits == <<"0", "1", "2", "3", "4", "5", "6", "7", "8", "9">>
LowerHex == <<"a", "b", "c", "d", "e", "f">>
UpperHex == <<"A", "B", "C", "D", "E", "F">>
IndexOf(seq, c) == CHOOSE i \in DOMAIN seq : seq[i] = c
InSeq(seq, c) == \E i \in DOMAIN seq : seq[i] = c

is_ascii_hexdigit(c) == InSeq(DecDigits, c) \/ InSeq(LowerHex, c) \/ InSeq(UpperHex, c)
to_digit16(c) ==
    IF InSeq(DecDigits, c) THEN IndexOf(DecDigits, c) - 1
    ELSE IF InSeq(LowerHex, c) THEN IndexOf(LowerHex, c) + 9
    ELSE IndexOf(UpperHex, c) + 9
\* u8::from_str_radix of two hexadecimal digits.
from_str_radix16(two) == (to_digit16(two[1]) * 16 + to_digit16(two[2])) % 256

\* StyleState::default and StyleState::to_span.
DefaultStyleState == [bold |-> FALSE, italic |-> FALSE, color |-> None, underline |-> FALSE]
to_span(state, text) ==
    [text |-> text, bold |-> state.bold, italic |-> state.italic,
     color |-> state.color, underline |-> state.underline]

closing_token(marker) ==
    CASE marker = "Bold" -> <<"*", "*">>
      [] marker = "Italic" -> <<"*">>
      [] OTHER -> <<"}">>

description(marker) ==
    CASE marker = "Bold" -> "bold span"
      [] marker = "Italic" -> "italic span"
      [] OTHER -> "color span"

\* Mutant: the buffer is pushed even when empty.
flush_buffer_always(buffer, spans, state) == Append(spans, to_span(state, buffer))

flush_buffer(buffer, spans, state) ==
    IF buffer = <<>> THEN spans ELSE Append(spans, to_span(state, buffer))

ParseOk(spans, index) == [kind |-> "ok", spans |-> spans, index |-> index, message |-> ""]
ParseError_new(index, message) ==
    [kind |-> "err", spans |-> <<>>, index |-> index, message |-> message]
ParsePanic == [kind |-> "panic", spans |-> <<>>, index |-> 0, message |-> ""]
NotParsed == [kind |-> "none", spans |-> <<>>, index |-> 0, message |-> ""]

DirectiveOk(color, index) == [kind |-> "ok", color |-> color, index |-> index, message |-> ""]
DirectiveErr(index, message) ==
    [kind |-> "err", color |-> None, index |-> index, message |-> message]
DirectivePanic == [kind |-> "panic", color |-> None, index |-> 0, message |-> ""]

\* Mutant: the scope's text starts at the brace.
directive_end_at_brace(brace_index) == brace_index

\* The offset parse_color_directive returns: the byte after the brace.
directive_end(brace_index) == brace_index + 1

\* parse_color_directive; input[index..] starts with "[color=".
parse_color_directive(inp, index) ==
    LET start_hex == index + Len(ColorPrefix)
        hex_start == start_hex + 1
        hex_end == hex_start + RgbFieldLen
        hex == SubSeq(inp, hex_start + 1, hex_end)
        bracket_index == hex_end
        brace_index == bracket_index + 1
    IN IF ~starts_with(inp, start_hex, <<"#">>)
       THEN DirectiveErr(start_hex, "expected # followed by a hexadecimal RGB value")
       ELSE IF hex_end > Len(inp)
       THEN DirectiveErr(hex_start,
                "incomplete color specification; expected 6 hexadecimal digits")
       ELSE IF ~is_char_boundary(inp, hex_end)
       THEN DirectivePanic
       ELSE IF ~(\A i \in 1..RgbFieldLen : is_ascii_hexdigit(hex[i]))
       THEN DirectiveErr(hex_start, "invalid RGB specification; use hexadecimal digits only")
       ELSE IF ~starts_with(inp, bracket_index, <<"]">>)
       THEN DirectiveErr(bracket_index, "expected ] to close color directive")
       ELSE IF brace_index >= Len(inp) \/ ~starts_with(inp, brace_index, <<"{">>)
       THEN DirectiveErr(brace_index, "expected { to start the colored text")
       ELSE DirectiveOk(<<from_str_radix16(SubSeq(hex, 1, 2)),
                          from_str_radix16(SubSeq(hex, 3, 4)),
                          from_str_radix16(SubSeq(hex, 5, 6))>>,
                        directive_end(brace_index))

\* parse_inner from the loop head, with the locals spans and buffer.
\* closing_marker is "none", "Bold", "Italic" or "Color".
RECURSIVE parse_inner(_, _, _, _, _, _)
parse_inner(inp, index, state, closing_marker, spans, buffer) ==
    LET nest(open_len, nested_state, marker) ==
            LET nested == parse_inner(inp, index + open_len, nested_state, marker,
                                      <<>>, <<>>)
            IN IF nested.kind # "ok" THEN nested
               ELSE parse_inner(inp, nested.index, state, closing_marker,
                                flush_buffer(buffer, spans, state) \o nested.spans, <<>>)
    IN
    IF index < Len(inp)
    THEN IF closing_marker # "none" /\ starts_with(inp, index, closing_token(closing_marker))
         THEN ParseOk(flush_buffer(buffer, spans, state),
                      index + Len(closing_token(closing_marker)))
         ELSE IF starts_with(inp, index, <<"*", "*">>)
         THEN nest(2, [state EXCEPT !.bold = TRUE], "Bold")
         ELSE IF starts_with(inp, index, <<"*">>)
         THEN nest(1, [state EXCEPT !.italic = TRUE], "Italic")
         ELSE IF starts_with(inp, index, ColorPrefix)
         THEN LET d == parse_color_directive(inp, index)
              IN IF d.kind = "err" THEN ParseError_new(d.index, d.message)
                 ELSE IF d.kind = "panic" THEN ParsePanic
                 ELSE nest(d.index - index, [state EXCEPT !.color = Some(d.color)], "Color")
         ELSE IF starts_with(inp, index, <<"}">>)
         THEN ParseError_new(index,
                "unexpected closing token } without matching opening [color=...]")
         ELSE IF starts_with(inp, index, <<"]">>)
         THEN ParseError_new(index, "unexpected closing token ]")
         ELSE IF starts_with(inp, index, <<"[">>)
         THEN ParseError_new(index, "unsupported directive; expected [color=#RRGGBB]{...}")
         ELSE LET n == len_utf8(inp[index + 1])
              IN parse_inner(inp, index + n, state, closing_marker, spans,
                             buffer \o SubSeq(inp, index + 1, index + n))
    ELSE IF closing_marker # "none"
         THEN ParseError_new(index, "unterminated " \o description(closing_marker))
         ELSE ParseOk(flush_buffer(buffer, spans, state), index)

parse_markup(inp) == parse_inner(inp, 0, DefaultStyleState, "none", <<>>, <<>>)

\* Span::text of every span, concatenated in order.
RECURSIVE ConcatText(_)
ConcatText(spans) ==
    IF spans = <<>> THEN <<>> ELSE Head(spans).text \o ConcatText(Tail(spans))

\* ---------------------------------------------------------- nested inputs
\* A scope a caller can write: a marker and, for a colour scope, its RGB field.
Scopes ==
    { [marker |-> "Bold", hex |-> <<>>],
      [marker |-> "Italic", hex |-> <<>>],
      [marker |-> "Color", hex |-> <<"1", "2", "A", "b", "3", "4">>],
      [marker |-> "Color", hex |-> <<"f", "f", "0", "0", "0", "0">>] }

\* The token that opens a scope.
opening_token(scope) ==
    CASE scope.marker = "Bold" -> <<"*", "*">>
      [] scope.marker = "Italic" -> <<"*">>
      [] OTHER -> ColorDirective(scope.hex)

\* Scopes nested one inside the other, outermost first, each used once.
Nestings ==
    {ks \in SeqsUpTo(Scopes, Cardinality(Scopes)) :
        \A i, j \in DOMAIN ks : i # j => ks[i] # ks[j]}

\* Text, then the scopes of ks opened in order around text, closed in
\* reverse order, with text after every closing token.
RECURSIVE NestedInput(_)
NestedInput(ks) ==
    IF ks = <<>> THEN <<"a">>
    ELSE <<"a">> \o opening_token(Head(ks)) \o NestedInput(Tail(ks))
         \o closing_token(Head(ks).marker) \o <<"a">>

NestedInputs == {NestedInput(ks) : ks \in Nestings}

\* ------------------------------------------------------- directive inputs
\* Characters written into the RGB field: a digit, a letter that is not a
\* hexadecimal digit, and a two-byte character.
FieldChars == {<<"1">>, <<"G">>, EAcute}

\* What follows the RGB field.
DirectiveTails ==
    {<<>>, <<"]">>, <<"]", "{">>, <<"]", "{", "x", "}">>, <<"}">>}

\* A colour directive, well formed or not: the prefix, with or without the
\* number sign, up to RgbFieldLen characters and a tail.
DirectiveInputs ==
    {head \o Flatten(field) \o tail :
        head \in {ColorPrefix, ColorPrefix \o <<"#">>},
        field \in SeqsUpTo(FieldChars, RgbFieldLen),
        tail \in DirectiveTails}

\* ========================================================== SectionBuilder
\* Blocks a caller hands to one builder.
MaxPushed == 3

PageBreakBlock == [kind |-> "PageBreak", lines |-> 0]

\* SectionBuilder::new (the title and the identifier play no part in build's
\* handling of the blocks).
SectionBuilder_new == [blocks |-> <<>>, start_on_new_page |-> FALSE]

SectionBuilder_start_on_new_page(self, flag) ==
    [self EXCEPT !.start_on_new_page = flag]

SectionBuilder_push_block(self, block) ==
    [self EXCEPT !.blocks = Append(self.blocks, block)]

\* self.blocks.extend(blocks)
SectionBuilder_extend_blocks(self, blocks) ==
    [self EXCEPT !.blocks = self.blocks \o blocks]

\* Mutant: the first block is never taken for a PageBreak.
first_is_page_break_never(blocks) == FALSE

\* match self.blocks.first() { Some(Block::PageBreak) => .., _ => .. }
first_is_page_break(blocks) == blocks # <<>> /\ Head(blocks) = PageBreakBlock

\* Mutant: the PageBreak is added after the supplied blocks.
SectionBuilder_build_appending(self) ==
    [blocks |-> IF self.start_on_new_page /\ ~first_is_page_break(self.blocks)
                THEN Append(self.blocks, PageBreakBlock)
                ELSE self.blocks]

\* SectionBuilder::build: the Section, as the list of its blocks.
SectionBuilder_build(self) ==
    [blocks |-> IF self.start_on_new_page /\ ~first_is_page_break(self.blocks)
                THEN <<PageBreakBlock>> \o self.blocks
                ELSE self.blocks]

\* No builder is in use.
SectionBuilderIdle ==
    /\ section_builder = SectionBuilder_new
    /\ pushed = <<>>
    /\ section = None

\* ================================================================ bookmarks
\* Sections handed to apply_section_bookmarks, and pages of the document.
MaxOutlineSections == 3
MaxDocPages == 2

\* A usize page number is hi * 2^32 + lo with lo below 2^32.
PageNumber(hi, lo) == [hi |-> hi, lo |-> lo]

\* page_number as u32: the low 32 bits.
as_u32(page_number) == page_number.lo

\* lopdf::Object.
Object(kind, num, str, items, dict) ==
    [kind |-> kind, num |-> num, str |-> str, items |-> items, dict |-> dict]
Reference(id) == Object("Reference", id, "", <<>>, <<>>)
Name(str) == Object("Name", 0, str, <<>>, <<>>)
Integer(n) == Object("Integer", n, "", <<>>, <<>>)
string_literal(str) == Object("String", 0, str, <<>>, <<>>)
Array(items) == Object("Array", 0, "", items, <<>>)
Dictionary(dict) == Object("Dictionary", 0, "", <<>>, dict)

\* lopdf::Dictionary: new, set, has.
Dictionary_new == <<>>
Dictionary_set(dict, key, value) ==
    [k \in (DOMAIN dict) \cup {key} |-> IF k = key THEN value ELSE dict[k]]
Dictionary_has(dict, key) == key \in DOMAIN dict

\* document.objects.insert(id, object)
objects_insert(objects, id, object) ==
    [k \in (DOMAIN objects) \cup {id} |-> IF k = id THEN object ELSE objects[k]]

\* A rendered document of n pages: catalog 1, page tree 2, pages 3..n+2.
\* catalog is "dict" (well formed), "not_dict" (object 1 is no dictionary),
\* "dangling" (Root references no object) or "no_root" (no Root entry).
PdfObjects(n, catalog) ==
    [id \in 1..(n + 2) |->
        IF id = 1
        THEN IF catalog = "not_dict" THEN Integer(0)
             ELSE Dictionary([Type |-> Name("Catalog"), Pages |-> Reference(2)])
        ELSE IF id = 2
        THEN Dictionary([Type |-> Name("Pages"), Count |-> Integer(n)])
        ELSE Dictionary([Type |-> Name("Page"), Parent |-> Reference(2)])]

PdfTrailer(catalog) ==
    IF catalog = "no_root" THEN Dictionary_new
    ELSE IF catalog = "dangling" THEN [Root |-> Reference(0)]
    ELSE [Root |-> Reference(1)]

\* The bytes of a document as the renderer wrote them, and bytes that are no
\* document.  written_by tells the serializations of one document apart:
\* the bytes lopdf writes for a document are not the bytes it was loaded from.
DocumentBytes(objects, trailer) ==
    [valid |-> TRUE, objects |-> objects, trailer |-> trailer, written_by |-> "genpdf"]
InvalidBytes == [valid |-> FALSE, objects |-> <<>>, trailer |-> <<>>, written_by |-> "none"]

PdfBytes ==
    {InvalidBytes}
    \cup {DocumentBytes(PdfObjects(n, catalog), PdfTrailer(catalog)) :
            n \in 1..MaxDocPages, catalog \in {"dict", "not_dict", "dangling", "no_root"}}

NoDocument == [objects |-> <<>>, trailer |-> <<>>, max_id |-> 0]

MaxOf(S) == IF S = {} THEN 0 ELSE CHOOSE m \in S : \A x \in S : x <= m

\* Document::load_mem of valid bytes.
load_mem(bytes) ==
    [objects |-> bytes.objects, trailer |-> bytes.trailer,
     max_id |-> MaxOf(DOMAIN bytes.objects)]

\* Document::save_to
save_to(doc) == [DocumentBytes(doc.objects, doc.trailer) EXCEPT !.written_by = "lopdf"]

\* Document::new_object_id
new_object_id(doc) ==
    [document |-> [doc EXCEPT !.max_id = doc.max_id + 1], id |-> doc.max_id + 1]

\* Document::get_pages: page number -> page object, found through the
\* catalog; empty when the catalog cannot be read.
get_pages(doc) ==
    LET catalog_found ==
            /\ Dictionary_has(doc.trailer, "Root")
            /\ doc.trailer["Root"].kind = "Reference"
            /\ doc.trailer["Root"].num \in DOMAIN doc.objects
            /\ doc.objects[doc.trailer["Root"].num].kind = "Dictionary"
        ids == {id \in DOMAIN doc.objects :
                   /\ doc.objects[id].kind = "Dictionary"
                   /\ Dictionary_has(doc.objects[id].dict, "Type")
                   /\ doc.objects[id].dict["Type"] = Name("Page")}
    IN IF catalog_found
       THEN [k \in 1..Cardinality(ids) |->
                CHOOSE id \in ids : Cardinality({j \in ids : j < id}) = k - 1]
       ELSE <<>>

\* BookmarkError
BookmarkError(kind, section_index, page_number) ==
    [kind |-> kind, section_index |-> section_index, page_number |-> page_number]
NoBookmarkError == BookmarkError("none", 0, PageNumber(0, 0))
Parse == BookmarkError("Parse", 0, PageNumber(0, 0))
MissingCatalog == BookmarkError("MissingCatalog", 0, PageNumber(0, 0))
InvalidCatalog == BookmarkError("InvalidCatalog", 0, PageNumber(0, 0))
MissingPage(section_index, page_number) ==
    BookmarkError("MissingPage", section_index, page_number)

\* Result<Vec<u8>, BookmarkError>
BookmarksOk(bytes) == [status |-> "Ok", bytes |-> Some(bytes), error |-> NoBookmarkError]
BookmarksErr(error) == [status |-> "Err", bytes |-> None, error |-> error]
NoBookmarksResult == [status |-> "none", bytes |-> None, error |-> NoBookmarkError]

OutlineEntry(object_id, page_ref, title, name) ==
    [object_id |-> object_id, page_ref |-> page_ref, title |-> title, name |-> name]

\* Mutant: the call goes on to build an outline without entries.
outline_entries_is_empty_never(entries) == FALSE

\* outline_entries.is_empty()
outline_entries_is_empty(entries) == entries = <<>>

\* collect_outline_entries from the pair at index (0-based) on, with the
\* entries collected so far.
RECURSIVE collect_outline_entries(_, _, _, _, _, _)
collect_outline_entries(doc, secs, sps, pgs, index, entries) ==
    IF index >= Min(Len(secs), Len(sps))
    THEN [ok |-> TRUE, entries |-> entries, document |-> doc, error |-> NoBookmarkError]
    ELSE LET maybe_page == sps[index + 1]
         IN IF maybe_page = None
            THEN collect_outline_entries(doc, secs, sps, pgs, index + 1, entries)
            ELSE LET page_number == Unwrap(maybe_page)
                     page_number_u32 == as_u32(page_number)
                     alloc == new_object_id(doc)
                 IN IF page_number_u32 \notin DOMAIN pgs
                    THEN [ok |-> FALSE, entries |-> <<>>, document |-> doc,
                          error |-> MissingPage(index, page_number)]
                    ELSE collect_outline_entries(
                             alloc.document, secs, sps, pgs, index + 1,
                             Append(entries,
                                    OutlineEntry(alloc.id, pgs[page_number_u32],
                                                 secs[index + 1].title,
                                                 secs[index + 1].identifier)))

\* Mutant: the links to the neighbours are left out.
outline_dictionary_unlinked(outlines, entries, index) ==
    LET entry == entries[index + 1]
        d1 == Dictionary_set(Dictionary_new, "Title", string_literal(entry.title))
        d2 == Dictionary_set(d1, "Dest", Array(<<Reference(entry.page_ref), Name("Fit")>>))
        d3 == Dictionary_set(d2, "Parent", Reference(outlines))
    IN IF IsSome(entry.name)
       THEN Dictionary_set(d3, "NM", string_literal(Unwrap(entry.name)))
       ELSE d3

\* The dictionary link_outline_entries builds for entries[index] (0-based).
outline_dictionary(outlines, entries, index) ==
    LET entry == entries[index + 1]
        d1 == Dictionary_set(Dictionary_new, "Title", string_literal(entry.title))
        d2 == Dictionary_set(d1, "Dest", Array(<<Reference(entry.page_ref), Name("Fit")>>))
        d3 == Dictionary_set(d2, "Parent", Reference(outlines))
        d4 == IF IsSome(entry.name)
              THEN Dictionary_set(d3, "NM", string_literal(Unwrap(entry.name)))
              ELSE d3
        d5 == IF index > 0
              THEN Dictionary_set(d4, "Prev", Reference(entries[index].object_id))
              ELSE d4
    IN IF index + 1 < Len(entries)
       THEN Dictionary_set(d5, "Next", Reference(entries[index + 2].object_id))
       ELSE d5

\* link_outline_entries from index (0-based) on: the document's objects.
RECURSIVE link_outline_entries(_, _, _, _)
link_outline_entries(outlines, doc, entries, index) ==
    IF index >= Len(entries) THEN doc
    ELSE link_outline_entries(
             outlines,
             [doc EXCEPT !.objects =
                 objects_insert(doc.objects, entries[index + 1].object_id,
                                Dictionary(outline_dictionary(outlines, entries, index)))],
             entries, index + 1)

\* Mutant: Last references the first entry.
outlines_dictionary_last_is_first(entries) ==
    LET d1 == Dictionary_set(Dictionary_new, "Type", Name("Outlines"))
        d2 == Dictionary_set(d1, "Count", Integer(Len(entries)))
        d3 == IF entries # <<>>
              THEN Dictionary_set(d2, "First", Reference(entries[1].object_id))
              ELSE d2
    IN IF entries # <<>>
       THEN Dictionary_set(d3, "Last", Reference(entries[1].object_id))
       ELSE d3

\* The dictionary of the outline root.
outlines_dictionary(entries) ==
    LET d1 == Dictionary_set(Dictionary_new, "Type", Name("Outlines"))
        d2 == Dictionary_set(d1, "Count", Integer(Len(entries)))
        d3 == IF entries # <<>>
              THEN Dictionary_set(d2, "First", Reference(entries[1].object_id))
              ELSE d2
    IN IF entries # <<>>
       THEN Dictionary_set(d3, "Last", Reference(entries[Len(entries)].object_id))
       ELSE d3

insert_outlines_root(outlines, doc, entries) ==
    IF ~(Dictionary_has(doc.trailer, "Root") /\ doc.trailer["Root"].kind = "Reference")
    THEN [ok |-> FALSE, document |-> doc, error |-> MissingCatalog]
    ELSE LET catalog_id == doc.trailer["Root"].num
         IN IF catalog_id \notin DOMAIN doc.objects
            THEN [ok |-> FALSE, document |-> doc, error |-> MissingCatalog]
            ELSE IF doc.objects[catalog_id].kind # "Dictionary"
            THEN [ok |-> FALSE, document |-> doc, error |-> InvalidCatalog]
            ELSE LET with_root ==
                         objects_insert(doc.objects, outlines,
                                        Dictionary(outlines_dictionary(entries)))
                     catalog ==
                         Dictionary(Dictionary_set(with_root[catalog_id].dict, "Outlines",
                                                   Reference(outlines)))
                 IN [ok |-> TRUE,
                     document |-> [doc EXCEPT !.objects =
                                      objects_insert(with_root, catalog_id, catalog)],
                     error |-> NoBookmarkError]

\* The sections of a document: section k has a title and, when k is odd, an
\* identifier.
BookmarkSection(k) ==
    [title |-> "Section " \o ToString(k),
     identifier |-> IF k % 2 = 1 THEN Some("id-" \o ToString(k)) ELSE None]
BookmarkSections ==
    {[k \in 1..n |-> BookmarkSection(k)] : n \in 0..MaxOutlineSections}

\* Recorded pages: none, a page number up to one past the last page, or a
\* page number above 2^32 - 1.
RecordedPage ==
    {None} \cup {Some(PageNumber(0, lo)) : lo \in 0..(MaxDocPages + 1)}
    \cup {Some(PageNumber(1, 1))}
SectionPages == SeqsUpTo(RecordedPage, MaxOutlineSections)

BookmarksStart(all_bytes, all_sections, all_section_pages) ==
    /\ pdf_bytes \in all_bytes
    /\ sections \in all_sections
    /\ section_pages \in all_section_pages
    /\ bm_pc = "idle"
    /\ document = NoDocument
    /\ page_map = <<>>
    /\ outline_entries = <<>>
    /\ outlines_id = None
    /\ bm_result = NoBookmarksResult

\* apply_section_bookmarks is not in use.
BookmarksIdle == BookmarksStart({InvalidBytes}, {<<>>}, {<<>>})

\* -------------------------------------------------------------------- Init
PipelineStart(builders) ==
    /\ builder \in builders
    /\ pc = "idle"
    /\ pass = "none"
    /\ passes = <<>>
    /\ failures = <<>>
    /\ tracker = None
    /\ final_tracker = None
    /\ recorded_pages = <<>>
    /\ elements = <<>>
    /\ render_idx = 1
    /\ rem = 0
    /\ recorded = {}
    /\ page = 0
    /\ area = 0
    /\ used = Size(0, 0)
    /\ has_more = FALSE
    /\ drawn = <<>>
    /\ result = NoResult

parser_vars == <<input, parsed>>

section_builder_vars == <<section_builder, pushed, section>>

bookmark_vars ==
    <<pdf_bytes, sections, section_pages, bm_pc, document, page_map, outline_entries,
      outlines_id, bm_result>>

decorator_vars == <<decorator, decorated>>

\* What the pipeline never touches.
outside_pipeline ==
    <<parser_vars, section_builder_vars, bookmark_vars, decorator_vars>>

layout_vars == <<elements, render_idx, rem, recorded, page, area, used, has_more, drawn>>

\* A fresh genpdf document and page decorator.
ResetLayout ==
    /\ elements' = <<>>
    /\ render_idx' = 1
    /\ rem' = 0
    /\ recorded' = {}
    /\ page' = 0
    /\ area' = 0
    /\ used' = Size(0, 0)
    /\ has_more' = FALSE
    /\ drawn' = <<>>

\* render, lines 465-478: the locals, and the tracker of the first pass.
Render ==
    /\ pc = "idle"
    /\ UNCHANGED outside_pipeline
    /\ recorded_pages' = [i \in 1..section_count(builder) |-> None]
    /\ IF need_tracking(builder)
       THEN /\ tracker' = Some(PageTracker_new(section_count(builder)))
            /\ final_tracker' = None
            /\ pass' = "discovery"
            /\ passes' = <<"discovery">>
       ELSE /\ tracker' = None
            /\ final_tracker' = new_final_tracker(builder)
            /\ pass' = "final"
            /\ passes' = <<"final">>
    /\ pc' = "prepare"
    /\ UNCHANGED <<builder, result, failures>>
    /\ UNCHANGED layout_vars

\* Mutant: the result of the discovery pass is dropped unexamined.
Fail_ignored_in_discovery(kind) ==
    /\ failures' = Append(failures, [pass |-> pass, error |-> kind])
    /\ IF pass = "discovery"
       THEN /\ pc' = "pass_end"
            /\ UNCHANGED result
       ELSE /\ pc' = "done"
            /\ result' = Err(kind)
    /\ UNCHANGED <<pass, passes>>

\* A pass failed: the ? of render_internal and of render hand the error to
\* the caller of render.
Fail(kind) ==
    /\ failures' = Append(failures, [pass |-> pass, error |-> kind])
    /\ result' = Err(kind)
    /\ pc' = "done"
    /\ UNCHANGED <<pass, passes>>

\* prepare_document in a build without the hyphenation feature (the
\* default): the error, or the height of the document's paper and its page
\* decorator, lengths in hundredths of a millimetre.  The header is installed
\* only for a builder with a cover, whose title it shows.
prepare_document(b, page_tracker, fonts_ok) ==
    IF b.enable_hyphenation
    THEN [status |-> "Err", error |-> "HyphenationUnavailable", paper |-> 0,
          decorator |-> ConfiguredPageDecorator_new(None, FALSE, None, None)]
    ELSE IF ~fonts_ok
    THEN [status |-> "Err", error |-> "FontLoad", paper |-> 0,
          decorator |-> ConfiguredPageDecorator_new(None, FALSE, None, None)]
    ELSE [status |-> "Ok", error |-> "none",
          paper |-> IF IsSome(b.paper_size) THEN Unwrap(b.paper_size)
                    ELSE PageHeight * BodyLine,
          decorator |->
              ConfiguredPageDecorator_new(
                  b.margins,
                  b.show_header /\ IsSome(b.cover),
                  IF b.show_footer THEN Some(FooterHeight * 100) ELSE None,
                  page_tracker)]

\* render_internal -> prepare_document: hyphenation is refused, or the fonts
\* load or fail.
PrepareDocument ==
    /\ pc = "prepare"
    /\ UNCHANGED outside_pipeline
    /\ \E fonts_ok \in BOOLEAN :
         LET prepared == prepare_document(builder, ActiveTracker, fonts_ok)
         IN IF prepared.status = "Ok"
            THEN /\ pc' = "populate"
                 /\ UNCHANGED <<result, failures, pass, passes>>
            ELSE Fail(prepared.error)
    /\ UNCHANGED <<builder, tracker, final_tracker, recorded_pages>>
    /\ UNCHANGED layout_vars

\* render_internal -> populate_document.
PopulateDocument ==
    /\ pc = "populate"
    /\ UNCHANGED outside_pipeline
    /\ \E images_decode \in (IF has_image(builder) THEN BOOLEAN ELSE {TRUE}) :
       LET toc_pages == IF pass = "discovery" THEN None
                        ELSE final_toc_pages(builder, recorded_pages)
           r == populate_document(builder, IsSome(ActiveTracker), toc_pages, images_decode)
       IN IF r.ok
          THEN /\ elements' = r.elements
               /\ render_idx' = 1
               /\ rem' = InitRem(r.elements, 1)
               /\ drawn' = [i \in 1..Len(r.elements) |-> 0]
               /\ pc' = "decorate"
               /\ UNCHANGED <<result, failures, pass, passes>>
          ELSE /\ Fail("Content")
               /\ UNCHANGED <<elements, render_idx, rem, drawn>>
    /\ UNCHANGED <<builder, tracker, final_tracker, recorded_pages,
                   recorded, page, area, used, has_more>>

\* The tracker of the running pass after f has been applied to it.
WithTracker(f(_)) ==
    IF pass = "discovery"
    THEN /\ tracker' = (IF IsSome(tracker) THEN Some(f(Unwrap(tracker))) ELSE None)
         /\ UNCHANGED final_tracker
    ELSE /\ final_tracker' =
              (IF IsSome(final_tracker) THEN Some(f(Unwrap(final_tracker))) ELSE None)
         /\ UNCHANGED tracker

\* Element::render of the one-line paragraph a header or footer factory of
\* prepare_document returns, into an area of the given height.
band_render(height) ==
    LET r == ElementRender(Element("Paragraph", 1, 1, "band", 0), 1, height)
    IN [ok |-> TRUE, size |-> r.size.height, has_more |-> r.has_more]

\* Document::render opens a page and ConfiguredPageDecorator::decorate_page
\* of the decorator prepare_document installed runs on it; its error ends
\* the pass; the area it returns is what the layout fills.
DecoratePage ==
    /\ pc = "decorate"
    /\ page < MaxPages
    /\ UNCHANGED outside_pipeline
    /\ LET prepared == prepare_document(builder, ActiveTracker, TRUE)
           self == [prepared.decorator EXCEPT !.page = page]
           inside_margins == IF IsSome(self.margins)
                             THEN prepared.paper - Unwrap(self.margins)
                             ELSE prepared.paper
           d == decorate_page(self, prepared.paper, band_render(inside_margins),
                              band_render(FooterHeight * 100))
       IN /\ page' = d.self.page
          /\ IF pass = "discovery"
             THEN tracker' = d.self.tracker /\ UNCHANGED final_tracker
             ELSE final_tracker' = d.self.tracker /\ UNCHANGED tracker
          /\ area' = d.area
          /\ IF d.status = "Ok"
             THEN /\ pc' = "layout"
                  /\ UNCHANGED <<result, failures, pass, passes>>
             ELSE Fail("Render")
    /\ used' = Size(0, 0)
    /\ has_more' = FALSE
    /\ UNCHANGED <<builder, recorded_pages, elements, render_idx, rem, recorded, drawn>>

\* SectionMarker::render: mark the section once.
MarkerRender(e) ==
    IF render_idx \in recorded
    THEN /\ UNCHANGED <<tracker, final_tracker, recorded>>
    ELSE /\ LET f(t) == mark_section(t, e.index) IN WithTracker(f)
         /\ recorded' = recorded \cup {render_idx}

\* One iteration of the root LinearLayout's loop: render the element at
\* render_idx into what is left of the page.  The render of a CaptionedImage
\* hands on the error of its image or of its caption, which ends the pass.
RenderElement ==
    /\ pc = "layout"
    /\ UNCHANGED outside_pipeline
    /\ ~has_more
    /\ area > 0
    /\ render_idx <= Len(elements)
    /\ LET e == elements[render_idx]
           r == ElementRender(e, rem, area)
       IN \E rendered \in (IF e.kind = "Image" THEN BOOLEAN ELSE {TRUE}) :
          IF rendered
          THEN /\ IF e.kind = "SectionMarker"
                  THEN MarkerRender(e)
                  ELSE UNCHANGED <<tracker, final_tracker, recorded>>
               /\ area' = IF r.size.height > area THEN 0 ELSE area - r.size.height
               /\ used' = stack_vertical(used, r.size)
               /\ drawn' = IF (r.size.height > 0 \/ e.kind = "SectionMarker")
                               /\ drawn[render_idx] = 0
                           THEN [drawn EXCEPT ![render_idx] = page] ELSE drawn
               /\ has_more' = r.has_more
               /\ IF r.has_more
                  THEN /\ render_idx' = render_idx
                       /\ rem' = r.rem
                  ELSE /\ render_idx' = render_idx + 1
                       /\ rem' = InitRem(elements, render_idx + 1)
               /\ UNCHANGED <<pc, pass, passes, failures, result>>
          ELSE /\ Fail("Render")
               /\ UNCHANGED <<tracker, final_tracker, recorded, area, used, drawn,
                              has_more, render_idx, rem>>
    /\ UNCHANGED <<builder, recorded_pages, elements, page>>

\* The root layout returns; Document::render adds a page, stops, or fails
\* when the layout has more and covered nothing of a fresh page.
EndPage ==
    /\ pc = "layout"
    /\ UNCHANGED outside_pipeline
    /\ has_more \/ area <= 0 \/ render_idx > Len(elements)
    /\ LET more == has_more \/ render_idx <= Len(elements)
       IN IF more
          THEN IF used = Size(0, 0)
               THEN Fail("Render")
               ELSE /\ pc' = "decorate"
                    /\ UNCHANGED <<result, failures, pass, passes>>
          ELSE /\ pc' = "pass_end"
               /\ UNCHANGED <<result, failures, pass, passes>>
    /\ UNCHANGED <<builder, tracker, final_tracker, recorded_pages>>
    /\ UNCHANGED layout_vars

\* What document.render wrote: the pages of the document and what was placed
\* where.  The encoding of the PDF writer is outside the model.
Bytes == [pages |-> page, elements |-> elements, drawn |-> drawn]

\* render_internal returned Ok: after the discovery pass render copies the
\* recorded pages and starts the final pass (lines 474-492); after the
\* final pass it builds the result (lines 494-501).
FinishPass ==
    /\ pc = "pass_end"
    /\ UNCHANGED outside_pipeline
    /\ IF pass = "discovery"
       THEN /\ recorded_pages' = pages(Unwrap(tracker))
            /\ final_tracker' = new_final_tracker(builder)
            /\ pass' = "final"
            /\ passes' = Append(passes, "final")
            /\ pc' = "prepare"
            /\ ResetLayout
            /\ UNCHANGED result
       ELSE /\ result' = Ok(Bytes,
                            IF IsSome(final_tracker) THEN pages(Unwrap(final_tracker))
                            ELSE [i \in 1..section_count(builder) |-> None])
            /\ pc' = "done"
            /\ UNCHANGED <<final_tracker, recorded_pages, pass, passes>>
            /\ UNCHANGED layout_vars
    /\ UNCHANGED <<builder, tracker, failures>>

PipelineNext ==
    \/ Render
    \/ PrepareDocument
    \/ PopulateDocument
    \/ DecoratePage
    \/ RenderElement
    \/ EndPage
    \/ FinishPass

vars ==
    <<pipeline_vars, parser_vars, section_builder_vars, bookmark_vars, decorator_vars>>

ParserIdle ==
    /\ input = <<>>
    /\ parsed = NotParsed

Init ==
    /\ PipelineStart(PdfBuilder)
    /\ ParserIdle
    /\ SectionBuilderIdle
    /\ BookmarksIdle
    /\ DecoratorIdle

Next == PipelineNext

Spec == Init /\ [][Next]_vars

\* --------------------------------------------------------- parser harness
\* What the parser never touches.
outside_parser ==
    <<pipeline_vars, section_builder_vars, bookmark_vars, decorator_vars>>

\* No render is in progress: the builder is PdfBuilder::default().
PipelineIdle ==
    /\ PipelineStart({[paper_size |-> None, margins |-> None, show_header |-> FALSE,
                       show_footer |-> FALSE, enable_hyphenation |-> FALSE,
                       cover |-> None, sections |-> <<>>, include_toc |-> FALSE,
                       render_section_headings |-> TRUE,
                       collect_section_pages |-> FALSE]})

\* The caller's input: assembled from pieces, nested scopes, or a directive.
ParserInit ==
    /\ \/ input \in Inputs
       \/ input \in NestedInputs
       \/ input \in DirectiveInputs
    /\ parsed = NotParsed
    /\ PipelineIdle
    /\ SectionBuilderIdle
    /\ BookmarksIdle
    /\ DecoratorIdle

\* A caller hands input to parse_markup.
ParseMarkup ==
    /\ parsed.kind = "none"
    /\ parsed' = parse_markup(input)
    /\ UNCHANGED input
    /\ UNCHANGED outside_parser

ParserNext == ParseMarkup

ParserSpec == ParserInit /\ [][ParserNext]_vars

\* ------------------------------------------------- SectionBuilder harness
outside_section_builder ==
    <<pipeline_vars, parser_vars, bookmark_vars, decorator_vars>>

SectionBuilderInit ==
    /\ SectionBuilderIdle
    /\ PipelineIdle
    /\ ParserIdle
    /\ BookmarksIdle
    /\ DecoratorIdle

\* The caller sets or clears the flag.
StartOnNewPage ==
    /\ section = None
    /\ \E flag \in BOOLEAN :
           section_builder' = SectionBuilder_start_on_new_page(section_builder, flag)
    /\ UNCHANGED <<pushed, section>>
    /\ UNCHANGED outside_section_builder

\* The caller pushes one more block.
PushBlock ==
    /\ section = None
    /\ Len(pushed) < MaxPushed
    /\ \E block \in Blocks :
           /\ section_builder' = SectionBuilder_push_block(section_builder, block)
           /\ pushed' = Append(pushed, block)
    /\ UNCHANGED section
    /\ UNCHANGED outside_section_builder

\* The caller hands over several blocks (or none) in one call.
ExtendBlocks ==
    /\ section = None
    /\ \E blocks \in SeqsUpTo(Blocks, MaxPushed - Len(pushed)) :
           /\ section_builder' = SectionBuilder_extend_blocks(section_builder, blocks)
           /\ pushed' = pushed \o blocks
    /\ UNCHANGED section
    /\ UNCHANGED outside_section_builder

\* The caller calls build, which consumes the builder's blocks.
Build ==
    /\ section = None
    /\ section' = Some(SectionBuilder_build(section_builder))
    /\ section_builder' = [section_builder EXCEPT !.blocks = <<>>]
    /\ UNCHANGED pushed
    /\ UNCHANGED outside_section_builder

SectionBuilderNext == StartOnNewPage \/ PushBlock \/ ExtendBlocks \/ Build

SectionBuilderSpec == SectionBuilderInit /\ [][SectionBuilderNext]_vars

\* ------------------------------------------------------- bookmark harness
outside_bookmarks ==
    <<pipeline_vars, parser_vars, section_builder_vars, decorator_vars>>

BookmarksInit ==
    /\ BookmarksStart(PdfBytes, BookmarkSections, SectionPages)
    /\ PipelineIdle
    /\ ParserIdle
    /\ SectionBuilderIdle
    /\ DecoratorIdle

bookmark_inputs == <<pdf_bytes, sections, section_pages>>

\* apply_section_bookmarks, lines 76-78: load the document, read its page map.
LoadMem ==
    /\ bm_pc = "idle"
    /\ IF pdf_bytes.valid
       THEN /\ document' = load_mem(pdf_bytes)
            /\ page_map' = get_pages(load_mem(pdf_bytes))
            /\ bm_pc' = "collect"
            /\ UNCHANGED bm_result
       ELSE /\ bm_result' = BookmarksErr(Parse)
            /\ bm_pc' = "done"
            /\ UNCHANGED <<document, page_map>>
    /\ UNCHANGED <<bookmark_inputs, outline_entries, outlines_id>>
    /\ UNCHANGED outside_bookmarks

\* Lines 79-84: collect the entries; without entries return the input bytes.
CollectOutlineEntries ==
    /\ bm_pc = "collect"
    /\ LET collected ==
               collect_outline_entries(document, sections, section_pages, page_map, 0, <<>>)
       IN IF ~collected.ok
          THEN /\ bm_result' = BookmarksErr(collected.error)
               /\ bm_pc' = "done"
               /\ UNCHANGED <<document, outline_entries>>
          ELSE /\ document' = collected.document
               /\ outline_entries' = collected.entries
               /\ IF outline_entries_is_empty(collected.entries)
                  THEN /\ bm_result' = BookmarksOk(pdf_bytes)
                       /\ bm_pc' = "done"
                  ELSE /\ bm_pc' = "link"
                       /\ UNCHANGED bm_result
    /\ UNCHANGED <<bookmark_inputs, page_map, outlines_id>>
    /\ UNCHANGED outside_bookmarks

\* Lines 86-87: allocate the root's id and link the entries.
LinkOutlineEntries ==
    /\ bm_pc = "link"
    /\ LET alloc == new_object_id(document)
       IN /\ outlines_id' = Some(alloc.id)
          /\ document' = link_outline_entries(alloc.id, alloc.document, outline_entries, 0)
    /\ bm_pc' = "root"
    /\ UNCHANGED <<bookmark_inputs, page_map, outline_entries, bm_result>>
    /\ UNCHANGED outside_bookmarks

\* Line 89: insert the outline root and reference it from the catalog.
InsertOutlinesRoot ==
    /\ bm_pc = "root"
    /\ LET inserted == insert_outlines_root(Unwrap(outlines_id), document, outline_entries)
       IN IF inserted.ok
          THEN /\ document' = inserted.document
               /\ bm_pc' = "save"
               /\ UNCHANGED bm_result
          ELSE /\ bm_result' = BookmarksErr(inserted.error)
               /\ bm_pc' = "done"
               /\ UNCHANGED document
    /\ UNCHANGED <<bookmark_inputs, page_map, outline_entries, outlines_id>>
    /\ UNCHANGED outside_bookmarks

\* Lines 91-93: serialize the document.
SaveTo ==
    /\ bm_pc = "save"
    /\ bm_result' = BookmarksOk(save_to(document))
    /\ bm_pc' = "done"
    /\ UNCHANGED <<bookmark_inputs, document, page_map, outline_entries, outlines_id>>
    /\ UNCHANGED outside_bookmarks

BookmarksNext ==
    LoadMem \/ CollectOutlineEntries \/ LinkOutlineEntries \/ InsertOutlinesRoot \/ SaveTo

BookmarkSpec == BookmarksInit /\ [][BookmarksNext]_vars

\* ------------------------------------------------------ decorator harness
outside_decorator ==
    <<pipeline_vars, parser_vars, section_builder_vars, bookmark_vars>>

DecoratorInit ==
    /\ decorator \in Decorators
    /\ decorated = NotDecorated
    /\ PipelineIdle
    /\ ParserIdle
    /\ SectionBuilderIdle
    /\ BookmarksIdle

\* Document::render opens one more page and calls decorate_page on it; the
\* header element is rendered into the area inside the margins, the footer
\* element into a band of the footer's height.  An error ends the render.
Decorate ==
    /\ decorated.status # "Err"
    /\ decorator.page < MaxDecorated
    /\ \E header_result \in
             (IF decorator.header
              THEN ElementResults(IF IsSome(decorator.margins)
                                  THEN PageHeight - Unwrap(decorator.margins)
                                  ELSE PageHeight)
              ELSE {NotDecorated.header_result}) :
       \E footer_result \in
             (IF IsSome(decorator.footer) THEN ElementResults(Unwrap(decorator.footer))
              ELSE {NotDecorated.footer_result}) :
          LET d == decorate_page(decorator, PageHeight, header_result, footer_result)
          IN /\ decorator' = d.self
             /\ decorated' = [status |-> d.status, area |-> d.area, error |-> d.error,
                              header_result |-> header_result,
                              footer_result |-> footer_result]
    /\ UNCHANGED outside_decorator

DecoratorSpec == DecoratorInit /\ [][Decorate]_vars

\* ================================================================== claims
Succeeded == pc = "done" /\ result.status = "Ok"
StartPages == Unwrap(result.section_start_pages)
\* Page tracking is active in the pass that produced the artifact.
TrackingActive == IsSome(final_tracker)

\* Positions in the element list of the artifact.
MarkerPos(index) ==
    CHOOSE k \in DOMAIN elements :
        elements[k].kind = "SectionMarker" /\ elements[k].index = index
ContentPositions(sec) ==
    {k \in DOMAIN elements :
        /\ elements[k].sec = sec
        /\ \/ elements[k].role = "heading"
           \/ elements[k].role = "block" /\ elements[k].kind # "PageBreak"}
FirstContentPos(sec) ==
    CHOOSE k \in ContentPositions(sec) : \A j \in ContentPositions(sec) : k <= j
TocTitlePos == CHOOSE k \in DOMAIN elements : elements[k].role = "toc_title"
TocTable == elements[CHOOSE k \in DOMAIN elements : elements[k].kind = "TableLayout"]

\* C1: when a table of contents is printed, the page numbers it shows (the
\* discovery pass's recordings) equal the start pages recorded by the final
\* pass and returned in section_start_pages.
C1_TocPagesMatchFinal ==
    (Succeeded /\ need_toc(builder)) =>
        /\ recorded_pages = StartPages
        /\ \A i \in 1..section_count(builder) :
               TocTable.cells[i] = toc_cell(StartPages[i])

C1_Witness ==
    /\ Succeeded /\ need_toc(builder)
    /\ section_count(builder) = 2
    /\ IsSome(StartPages[1]) /\ IsSome(StartPages[2])
    /\ StartPages[1] # StartPages[2]
    /\ TocTable.cells = <<toc_cell(StartPages[1]), toc_cell(StartPages[2])>>

\* C2: the start page recorded for a section is the first page on which the
\* section's content (its heading, or its first block that is not a
\* PageBreak when headings are suppressed) is laid out.
C2_StartPageIsFirstContentPage ==
    (Succeeded /\ TrackingActive) =>
        \A sec \in 1..section_count(builder) :
            (ContentPositions(sec) # {} /\ IsSome(StartPages[sec])) =>
                StartPages[sec] = Some(drawn[FirstContentPos(sec)])

\* C3: with a table of contents, the reported page numbers never decrease
\* in document order and none is smaller than the page of the table of
\* contents.
C3_PagesMonotoneAfterToc ==
    (Succeeded /\ need_toc(builder)) =>
        /\ \A i, j \in 1..section_count(builder) :
               (i < j /\ IsSome(StartPages[i]) /\ IsSome(StartPages[j])) =>
                   Unwrap(StartPages[i]) <= Unwrap(StartPages[j])
        /\ \A i \in 1..section_count(builder) :
               IsSome(StartPages[i]) => Unwrap(StartPages[i]) >= drawn[TocTitlePos]

C3_Witness ==
    /\ Succeeded /\ need_toc(builder) /\ IsSome(builder.cover)
    /\ section_count(builder) = 2
    /\ IsSome(StartPages[1]) /\ IsSome(StartPages[2])
    /\ Unwrap(StartPages[1]) < Unwrap(StartPages[2])
    /\ drawn[TocTitlePos] = 2

\* C4: within a pass a slot is written when its section's marker is
\* rendered, with the page counter's value at that moment, and a written
\* slot keeps its value whatever page turns or marker renders follow.
SlotsFirstWriteWins(t, u) ==
    (IsSome(t) /\ IsSome(u)) =>
        \A i \in DOMAIN Unwrap(t).section_pages :
            LET before == Unwrap(t).section_pages[i]
                after == Unwrap(u).section_pages[i]
            IN /\ IsSome(before) => after = before
               /\ (before = None /\ IsSome(after)) =>
                     /\ after = Some(Unwrap(t).current_page)
                     /\ pc = "layout"
                     /\ elements[render_idx].kind = "SectionMarker"
                     /\ elements[render_idx].index = i - 1

C4_FirstWriteWins ==
    [][/\ SlotsFirstWriteWins(tracker, tracker')
       /\ SlotsFirstWriteWins(final_tracker, final_tracker')]_vars

C4_Witness ==
    /\ pass = "final" /\ pc = "layout" /\ IsSome(final_tracker)
    /\ Cardinality(recorded) = 2
    /\ IsSome(Unwrap(final_tracker).section_pages[1])
    /\ Unwrap(Unwrap(final_tracker).section_pages[1]) < Unwrap(final_tracker).current_page
    /\ Unwrap(Unwrap(final_tracker).section_pages[1])
         < Unwrap(Unwrap(final_tracker).section_pages[2])

\* C5: the discovery pass runs only when a table of contents is requested
\* and there is a section; without a requested table of contents exactly
\* one pass, the final pass, runs, also when section pages are collected.
C5_SinglePassWithoutToc ==
    pc = "done" =>
        /\ (\E k \in DOMAIN passes : passes[k] = "discovery") => need_toc(builder)
        /\ ~builder.include_toc => passes = <<"final">>

\* C6: a successful render returns one entry per input section, entry i
\* being the recording of the i-th section's marker.
C6_OneEntryPerSection ==
    Succeeded =>
        /\ Len(StartPages) = Len(builder.sections)
        /\ \A i \in 1..Len(StartPages) :
               IF TrackingActive
               THEN IsSome(StartPages[i]) => Unwrap(StartPages[i]) = drawn[MarkerPos(i - 1)]
               ELSE StartPages[i] = None

C6_Witness ==
    /\ Succeeded /\ TrackingActive
    /\ Len(builder.sections) = 2
    /\ builder.sections[1] # builder.sections[2]
    /\ IsSome(StartPages[1]) /\ IsSome(StartPages[2])
    /\ Unwrap(StartPages[1]) # Unwrap(StartPages[2])

\* C7 as stated: with tracking active an empty section is reported as None.
C7_EmptySectionIsNone ==
    (Succeeded /\ TrackingActive) =>
        \A i \in 1..section_count(builder) :
            builder.sections[i] = <<>> => StartPages[i] = None

\* C7 amended: with tracking active an empty section is reported as
\* Some(p), p being the page current when the section's marker is rendered;
\* a marker is pushed for every section, with blocks or without.
C7_EmptySectionIsRecorded ==
    (Succeeded /\ TrackingActive) =>
        \A i \in 1..section_count(builder) :
            builder.sections[i] = <<>> =>
                /\ IsSome(StartPages[i])
                /\ Unwrap(StartPages[i]) >= 1
                /\ \E k \in DOMAIN elements :
                       /\ elements[k].kind = "SectionMarker"
                       /\ elements[k].sec = i
                       /\ drawn[k] = Unwrap(StartPages[i])

C7_Witness ==
    /\ Succeeded /\ TrackingActive
    /\ ~builder.render_section_headings
    /\ section_count(builder) = 2
    /\ builder.sections[1] # <<>> /\ builder.sections[2] = <<>>
    /\ IsSome(StartPages[2])

\* C8: a failing pass ends the render with that error, without bytes and
\* without a page list; no pass is run twice, and no pass is started after
\* a failure.
C8_FailureAbortsRender ==
    failures # <<>> =>
        /\ pc = "done"
        /\ Len(failures) = 1
        /\ result = [status |-> "Err", bytes |-> None, section_start_pages |-> None,
                     error |-> failures[1].error]
        /\ passes[Len(passes)] = failures[1].pass
        /\ \A i, j \in DOMAIN passes : passes[i] = passes[j] => i = j

C8_Witness ==
    /\ pc = "done" /\ result.status = "Err"
    /\ failures = <<[pass |-> "discovery", error |-> "Render"]>>
    /\ passes = <<"discovery">>
    /\ page >= 2

\* ------------------------------------------------------------ parser claims
Parsed == parsed.kind # "none"
MarkupTokens == {"*", "[", "]", "}"}
NoMarkupTokens(inp) == \A i \in DOMAIN inp : inp[i] \notin MarkupTokens
PlainSpan(text) ==
    [text |-> text, bold |-> FALSE, italic |-> FALSE, color |-> None, underline |-> FALSE]

\* C9 as stated: every input without markup tokens, the empty string
\* included, yields exactly one unstyled Span holding the input.
C9_PlainTextOneSpan ==
    (Parsed /\ NoMarkupTokens(input)) =>
        /\ parsed.kind = "ok"
        /\ parsed.spans = <<PlainSpan(input)>>

\* C9 amended: every non-empty input without markup tokens yields exactly
\* one unstyled Span holding the input; the empty input yields no Span.
C9_PlainTextOneSpanUnlessEmpty ==
    (Parsed /\ NoMarkupTokens(input)) =>
        /\ parsed.kind = "ok"
        /\ parsed.spans = IF input = <<>> THEN <<>> ELSE <<PlainSpan(input)>>

C9_Witness ==
    /\ Parsed /\ NoMarkupTokens(input)
    /\ Len(input) >= 4
    /\ \E i \in DOMAIN input : input[i] = "C3"
    /\ \E i \in DOMAIN input : input[i] = "{"
    /\ Len(parsed.spans) = 1

\* The input without its markup tokens: every asterisk, every closing
\* brace and every colour directive from its bracket to its opening brace.
DirectiveLen == Len(ColorPrefix) + 9
RECURSIVE StripMarkup(_, _)
StripMarkup(inp, index) ==
    IF index >= Len(inp) THEN <<>>
    ELSE IF starts_with(inp, index, ColorPrefix)
         THEN StripMarkup(inp, index + DirectiveLen)
         ELSE IF inp[index + 1] \in {"*", "}"}
              THEN StripMarkup(inp, index + 1)
              ELSE <<inp[index + 1]>> \o StripMarkup(inp, index + 1)

\* C10 as stated: the texts of the Spans of an accepted input, concatenated
\* in order, are the input.
C10_ConcatIsInput ==
    parsed.kind = "ok" => ConcatText(parsed.spans) = input

\* C10 amended: the texts of the Spans of an accepted input, concatenated in
\* order, are the input with its markup tokens removed; they are the input
\* itself exactly when it holds no markup token.
C10_ConcatIsInputWithoutMarkup ==
    parsed.kind = "ok" =>
        /\ ConcatText(parsed.spans) = StripMarkup(input, 0)
        /\ ConcatText(parsed.spans) = input <=> NoMarkupTokens(input)

C10_Witness ==
    /\ parsed.kind = "ok"
    /\ Len(parsed.spans) = 2
    /\ IsSome(parsed.spans[1].color)
    /\ parsed.spans[2].color = None
    /\ Len(ConcatText(parsed.spans)) < Len(input)

SameStyle(a, b) == a.bold = b.bold /\ a.italic = b.italic /\ a.color = b.color

\* C11 as stated: the Spans of an accepted input are maximal runs of constant
\* style: none has empty text and no two adjacent ones have the same bold,
\* italic and colour.
C11_SpansMaximal ==
    parsed.kind = "ok" =>
        /\ \A i \in DOMAIN parsed.spans : parsed.spans[i].text # <<>>
        /\ \A i \in 1..(Len(parsed.spans) - 1) :
               ~SameStyle(parsed.spans[i], parsed.spans[i + 1])

\* The colour an RGB field denotes.
ColorOf(hex) ==
    <<from_str_radix16(SubSeq(hex, 1, 2)), from_str_radix16(SubSeq(hex, 3, 4)),
      from_str_radix16(SubSeq(hex, 5, 6))>>

\* The style of text directly inside scope, itself inside text of style state.
StyleInside(state, scope) ==
    CASE scope.marker = "Bold" -> [state EXCEPT !.bold = TRUE]
      [] scope.marker = "Italic" -> [state EXCEPT !.italic = TRUE]
      [] OTHER -> [state EXCEPT !.color = Some(ColorOf(scope.hex))]

\* The Spans the claim describes for NestedInput(ks): each text is bold iff
\* inside a bold scope, italic iff inside an italic scope, and has the colour
\* of the innermost enclosing colour scope.
RECURSIVE NestedSpans(_, _)
NestedSpans(ks, state) ==
    IF ks = <<>> THEN <<to_span(state, <<"a">>)>>
    ELSE <<to_span(state, <<"a">>)>>
         \o NestedSpans(Tail(ks), StyleInside(state, Head(ks)))
         \o <<to_span(state, <<"a">>)>>

\* C12 as stated: scopes nest in any order of kinds; every text of a nested
\* input comes back as a Span with the style of its enclosing scopes, and
\* text after a closing token has the style of the enclosing scope.
C12_ScopesNestInAnyOrder ==
    \A ks \in Nestings :
        (Parsed /\ input = NestedInput(ks)) =>
            /\ parsed.kind = "ok"
            /\ parsed.spans = NestedSpans(ks, DefaultStyleState)

InvalidRgb == "invalid RGB specification; use hexadecimal digits only"

\* A colour directive starts at byte offset i and its RGB field, the
\* RgbFieldLen bytes between the number sign and the closing bracket, holds
\* a byte that is not a hexadecimal digit.
BadRgbFieldAt(inp, i) ==
    /\ starts_with(inp, i, ColorPrefix \o <<"#">>)
    /\ starts_with(inp, i + Len(ColorPrefix) + 1 + RgbFieldLen, <<"]">>)
    /\ \E k \in 1..RgbFieldLen : ~is_ascii_hexdigit(inp[i + Len(ColorPrefix) + 1 + k])

\* Byte offset of the first character of that field that is not a
\* hexadecimal digit.
FirstNonHex(inp, i) ==
    LET hex_start == i + Len(ColorPrefix) + 1
        k == CHOOSE k \in 1..RgbFieldLen :
                 /\ ~is_ascii_hexdigit(inp[hex_start + k])
                 /\ \A j \in 1..(k - 1) : is_ascii_hexdigit(inp[hex_start + j])
    IN hex_start + k - 1

\* C13 as stated: when the parser reaches a colour directive whose RGB field
\* holds a character that is not a hexadecimal digit, it fails with the
\* invalid-RGB error at the byte offset of the first such character.
C13_InvalidRgbIndexIsFirstNonHex ==
    \A i \in 0..Len(input) :
        (Parsed /\ NoMarkupTokens(SubSeq(input, 1, i)) /\ BadRgbFieldAt(input, i)) =>
            /\ parsed.kind = "err"
            /\ parsed.message = InvalidRgb
            /\ parsed.index = FirstNonHex(input, i)

\* C14 as stated: parse_markup is total: on every input it returns Ok with
\* Spans or Err with a ParseError and no Spans; it never aborts.
C14_ParseMarkupTotal ==
    Parsed =>
        /\ parsed.kind \in {"ok", "err"}
        /\ parsed.kind = "err" => parsed.spans = <<>>

\* Number of the first n bytes of inp that are the byte c.
CountByte(inp, n, c) == Cardinality({j \in 1..n : inp[j] = c})

\* The byte at 1-based position j is the bracket that closes the RGB field
\* of a colour directive.
IsDirectiveBracket(inp, j) ==
    /\ j > Len(ColorPrefix) + 1 + RgbFieldLen
    /\ starts_with(inp, j - 1 - (Len(ColorPrefix) + 1 + RgbFieldLen), ColorPrefix \o <<"#">>)
    /\ inp[j] = "]"

\* Number of colour scopes opened in the first n bytes: the braces that
\* directly follow the bracket of a directive.
OpenedColorScopes(inp, n) ==
    Cardinality({j \in 2..n : inp[j] = "{" /\ IsDirectiveBracket(inp, j - 1)})

\* A closing brace or bracket with no matching opener.
UnmatchedClosing(inp) ==
    \/ \E j \in DOMAIN inp : inp[j] = "]" /\ ~IsDirectiveBracket(inp, j)
    \/ \E n \in DOMAIN inp : CountByte(inp, n, "}") > OpenedColorScopes(inp, n)

\* The input ends inside a scope: an asterisk has no partner, or a colour
\* scope has no closing brace.
EndsInsideScope(inp) ==
    \/ CountByte(inp, Len(inp), "*") % 2 = 1
    \/ OpenedColorScopes(inp, Len(inp)) > CountByte(inp, Len(inp), "}")

UnexpectedBrace == "unexpected closing token } without matching opening [color=...]"
UnexpectedBracket == "unexpected closing token ]"

\* C15 as stated: an input that ends inside a scope, or holds a closing
\* brace or bracket with no matching opener, is rejected with a ParseError
\* whose index lies in 0..len(input); for an unexpected closing token the
\* index is the offset of that token.
C15_UnbalancedInputRejected ==
    (Parsed /\ (EndsInsideScope(input) \/ UnmatchedClosing(input))) =>
        /\ parsed.kind = "err"
        /\ parsed.index \in 0..Len(input)
        /\ parsed.message = UnexpectedBrace => input[parsed.index + 1] = "}"
        /\ parsed.message = UnexpectedBracket => input[parsed.index + 1] = "]"

\* ---------------------------------------------------------- SectionBuilder
Built == section # None
BuiltBlocks == Unwrap(section).blocks
ConsecutivePageBreaks(blocks) ==
    \E i \in 1..(Len(blocks) - 1) :
        blocks[i] = PageBreakBlock /\ blocks[i + 1] = PageBreakBlock

\* C16 as stated: a Section built with start_on_new_page(true) never holds
\* two consecutive PageBreak blocks, whatever blocks the caller pushed.
C16_NoConsecutivePageBreaks ==
    (Built /\ section_builder.start_on_new_page) =>
        ~ConsecutivePageBreaks(BuiltBlocks)

\* C16 amended: a Section built with start_on_new_page(true) holds two
\* consecutive PageBreak blocks only where the pushed blocks already did:
\* build adds no PageBreak next to a supplied leading PageBreak.
C16_BuildAddsNoConsecutivePageBreak ==
    (Built /\ section_builder.start_on_new_page) =>
        (ConsecutivePageBreaks(BuiltBlocks) <=> ConsecutivePageBreaks(pushed))

C16_Witness ==
    /\ Built /\ section_builder.start_on_new_page
    /\ Len(pushed) >= 2
    /\ Head(pushed) = PageBreakBlock
    /\ pushed[2] # PageBreakBlock
    /\ BuiltBlocks = pushed

\* C17: with start_on_new_page(true) the built section starts with a
\* PageBreak, one PageBreak is inserted at index 0 exactly when the supplied
\* blocks do not start with one, and the supplied blocks follow in their
\* order; with start_on_new_page(false) the blocks are those supplied.
C17_LeadingPageBreakInserted ==
    Built =>
        IF section_builder.start_on_new_page
        THEN /\ Head(BuiltBlocks) = PageBreakBlock
             /\ IF pushed # <<>> /\ Head(pushed) = PageBreakBlock
                THEN BuiltBlocks = pushed
                ELSE /\ Len(BuiltBlocks) = Len(pushed) + 1
                     /\ Tail(BuiltBlocks) = pushed
        ELSE BuiltBlocks = pushed

C17_Witness ==
    /\ Built /\ section_builder.start_on_new_page
    /\ Len(pushed) = MaxPushed
    /\ Head(pushed) # PageBreakBlock
    /\ \E i \in DOMAIN pushed : pushed[i] = PageBreakBlock
    /\ Len(BuiltBlocks) = Len(pushed) + 1

\* --------------------------------------------------------------- bookmarks
BookmarksDone == bm_pc = "done"
\* apply_section_bookmarks succeeded with at least one outline entry.
Bookmarked == BookmarksDone /\ bm_result.status = "Ok" /\ outline_entries # <<>>
OutObjects == Unwrap(bm_result.bytes).objects
OutTrailer == Unwrap(bm_result.bytes).trailer

\* Positions (1-based) of the sections that have a recorded page.
WithPage ==
    {i \in 1..Min(Len(sections), Len(section_pages)) : section_pages[i] # None}
\* The k-th of them in section order.
NthWithPage(k) ==
    CHOOSE i \in WithPage : Cardinality({j \in WithPage : j < i}) = k - 1

EntryId(k) == outline_entries[k].object_id
EntryDict(k) == OutObjects[EntryId(k)].dict
OutlineRoot == Unwrap(outlines_id)

\* C18: after a successful call with at least one resolvable section there
\* is one outline entry per section with a recorded page, in section order;
\* entry k's Next is entry k+1 and entry k+1's Prev is entry k, the first
\* has no Prev, the last no Next, and every Parent is the one newly
\* allocated outline root.
C18_EntriesDoublyLinked ==
    Bookmarked =>
        LET n == Len(outline_entries)
        IN /\ n = Cardinality(WithPage)
           /\ OutlineRoot \notin DOMAIN pdf_bytes.objects
           /\ \A k \in 1..n :
                 /\ EntryId(k) \in DOMAIN OutObjects
                 /\ EntryId(k) \notin DOMAIN pdf_bytes.objects
                 /\ EntryId(k) # OutlineRoot
                 /\ \A j \in 1..n : j # k => EntryId(j) # EntryId(k)
                 /\ OutObjects[EntryId(k)].kind = "Dictionary"
                 /\ EntryDict(k)["Title"] = string_literal(sections[NthWithPage(k)].title)
                 /\ EntryDict(k)["Parent"] = Reference(OutlineRoot)
                 /\ IF k > 1
                    THEN /\ Dictionary_has(EntryDict(k), "Prev")
                         /\ EntryDict(k)["Prev"] = Reference(EntryId(k - 1))
                    ELSE ~Dictionary_has(EntryDict(k), "Prev")
                 /\ IF k < n
                    THEN /\ Dictionary_has(EntryDict(k), "Next")
                         /\ EntryDict(k)["Next"] = Reference(EntryId(k + 1))
                    ELSE ~Dictionary_has(EntryDict(k), "Next")

C18_Witness ==
    /\ Bookmarked
    /\ Len(sections) = MaxOutlineSections
    /\ Len(section_pages) = MaxOutlineSections
    /\ section_pages[2] = None
    /\ Len(outline_entries) = MaxOutlineSections - 1
    /\ EntryDict(2)["Prev"] = Reference(EntryId(1))

\* C19: after a successful call with at least one resolvable section the
\* outline root's First and Last reference the first and the last entry,
\* its Count is the number of sections with a recorded page, and the root
\* catalog references the root under Outlines.
C19_RootReferencesEntries ==
    Bookmarked =>
        LET n == Cardinality(WithPage)
            root == OutObjects[OutlineRoot]
            catalog == OutObjects[OutTrailer["Root"].num]
        IN /\ OutlineRoot \in DOMAIN OutObjects
           /\ root.kind = "Dictionary"
           /\ root.dict["First"] = Reference(EntryId(1))
           /\ root.dict["Last"] = Reference(EntryId(Len(outline_entries)))
           /\ root.dict["Count"] = Integer(n)
           /\ catalog.kind = "Dictionary"
           /\ catalog.dict["Outlines"] = Reference(OutlineRoot)

C19_Witness ==
    /\ Bookmarked
    /\ Len(outline_entries) = MaxOutlineSections
    /\ OutObjects[OutlineRoot].dict["Count"] = Integer(MaxOutlineSections)
    /\ EntryId(1) # EntryId(MaxOutlineSections)

\* The document of pdf_bytes has a page object for page number p.
HasPageObject(p) ==
    /\ p.hi = 0
    /\ p.lo \in DOMAIN get_pages(load_mem(pdf_bytes))

\* Positions (1-based) of the sections whose recorded page has no page object.
Unresolvable ==
    {i \in WithPage : ~HasPageObject(Unwrap(section_pages[i]))}

\* C20 as stated: when some section's recorded page number has no page
\* object, the call fails with MissingPage carrying the index of the first
\* such section and that page number, and returns no bytes.
C20_MissingPageReported ==
    (BookmarksDone /\ pdf_bytes.valid /\ Unresolvable # {}) =>
        LET first == CHOOSE i \in Unresolvable : \A j \in Unresolvable : i <= j
        IN /\ bm_result.status = "Err"
           /\ bm_result.error = MissingPage(first - 1, Unwrap(section_pages[first]))
           /\ bm_result.bytes = None

\* No section has a recorded page: every entry of section_pages is None, or
\* there is no section.
NoRecordedPage ==
    \/ \A i \in DOMAIN section_pages : section_pages[i] = None
    \/ sections = <<>>

\* C21: when no section has a recorded page and the bytes parse, the call
\* returns Ok with the bytes it was given, allocates no object id, inserts
\* no object into the document and builds no outline.
C21_NoPageIsNoOp ==
    (BookmarksDone /\ pdf_bytes.valid /\ NoRecordedPage) =>
        /\ bm_result = BookmarksOk(pdf_bytes)
        /\ outline_entries = <<>>
        /\ outlines_id = None
        /\ document = load_mem(pdf_bytes)

C21_Witness ==
    /\ BookmarksDone /\ pdf_bytes.valid /\ NoRecordedPage
    /\ Len(sections) = MaxOutlineSections
    /\ Len(section_pages) = MaxOutlineSections
    /\ bm_result.status = "Ok"
    /\ Unwrap(bm_result.bytes) # save_to(load_mem(pdf_bytes))

\* C21, second case: sections without a single entry in section_pages, and
\* recorded pages without a section.
C21_WitnessNoSections ==
    /\ BookmarksDone /\ pdf_bytes.valid
    /\ sections = <<>>
    /\ \E i \in DOMAIN section_pages : section_pages[i] # None
    /\ bm_result = BookmarksOk(pdf_bytes)

\* Positions (1-based) of the sections whose recorded page is above 2^32 - 1.
AboveU32 == {i \in WithPage : Unwrap(section_pages[i]).hi > 0}

\* C30 as stated: an outline entry is created for a section only when the
\* page map has an entry for exactly the section's recorded page number, and
\* a call with a recorded page number above 2^32 - 1 fails with MissingPage;
\* when that section is the one reported, the error carries the number as
\* recorded.
C30_NoWrapToSmallerPage ==
    /\ \A k \in DOMAIN outline_entries :
           LET p == Unwrap(section_pages[NthWithPage(k)])
           IN /\ p.hi = 0
              /\ p.lo \in DOMAIN page_map
              /\ outline_entries[k].page_ref = page_map[p.lo]
    /\ (BookmarksDone /\ pdf_bytes.valid /\ AboveU32 # {}) =>
           /\ bm_result.status = "Err"
           /\ bm_result.error.kind = "MissingPage"
           /\ (bm_result.error.section_index + 1) \in AboveU32 =>
                  bm_result.error.page_number =
                      Unwrap(section_pages[bm_result.error.section_index + 1])

\* ----------------------------------------------------------- element order
\* populate_document has filled the document of the running pass.
Populated == pc \in {"decorate", "layout", "pass_end"} \/ Succeeded

\* A forced page break follows the cover content.
BreakAfterCover ==
    \E k \in DOMAIN elements : elements[k].kind = "PageBreak" /\ elements[k].role = "cover"

\* A table of contents block is rendered.
TocRendered == \E k \in DOMAIN elements : elements[k].role = "toc_title"

\* C23 as stated: a page break follows the cover content if and only if a
\* table of contents block or a section is rendered after it; with a cover,
\* a requested table of contents and no section there is none.
C23_BreakAfterCoverIffContentFollows ==
    (Populated /\ IsSome(builder.cover)) =>
        /\ BreakAfterCover <=> (TocRendered \/ section_count(builder) > 0)
        /\ (builder.include_toc /\ section_count(builder) = 0) => ~BreakAfterCover

\* The blank page the page break costs a document of a cover alone.
C23_BlankPage ==
    /\ Succeeded /\ IsSome(builder.cover) /\ builder.include_toc /\ section_count(builder) = 0
    /\ ~TocRendered
    /\ Unwrap(result.bytes).pages = 2
    /\ \A k \in DOMAIN drawn : drawn[k] <= 1

\* What the claim tells of an element: its kind, its part of the document
\* and its section.
Shape(e) == <<e.kind, e.role, e.sec>>

\* The elements the claim lists: all but the forced page breaks after the
\* cover and after the table of contents.
Listed(es) ==
    SelectSeq(es, LAMBDA e : ~(e.kind = "PageBreak" /\ e.role \in {"cover", "toc"}))

\* Marker, heading and blocks of section sec (1-based) of b, as listed.
SectionShape(b, sec) ==
    (IF need_tracking(b) THEN << <<"SectionMarker", "marker", sec>> >> ELSE <<>>)
    \o (IF b.render_section_headings
        THEN << <<"Paragraph", "heading", sec>>, <<"Break", "heading_break", sec>> >>
        ELSE <<>>)
    \o [j \in 1..Len(b.sections[sec]) |-> <<b.sections[sec][j].kind, "block", sec>>]

RECURSIVE SectionShapesFrom(_, _)
SectionShapesFrom(b, sec) ==
    IF sec > Len(b.sections) THEN <<>>
    ELSE SectionShape(b, sec) \o SectionShapesFrom(b, sec + 1)

\* The order the claim gives for a pass over b, whichever pass it is.
ListedOrder(b) ==
    (IF IsSome(b.cover)
     THEN << <<"Paragraph", "cover", 0>>, <<"Break", "cover", 0>> >>
          \o (IF Unwrap(b.cover).subtitle
              THEN << <<"Paragraph", "cover_subtitle", 0>>, <<"Break", "cover_subtitle", 0>> >>
              ELSE <<>>)
          \o (IF Unwrap(b.cover).identifier
              THEN << <<"Paragraph", "cover_identifier", 0>>,
                      <<"Break", "cover_identifier", 0>> >>
              ELSE <<>>)
          \o [j \in 1..Len(Unwrap(b.cover).blocks) |->
                 <<Unwrap(b.cover).blocks[j].kind, "cover_block", 0>>]
     ELSE <<>>)
    \o (IF b.include_toc /\ Len(b.sections) > 0
        THEN << <<"Paragraph", "toc_title", 0>>, <<"Break", "toc", 0>>,
                <<"TableLayout", "toc", 0>> >>
        ELSE <<>>)
    \o SectionShapesFrom(b, 1)

\* C24: in the discovery pass and in the final pass alike the elements
\* handed to the layout engine are the cover content, the table of contents
\* block (only if requested and sections exist), then for each section in
\* input order its marker, its heading (unless suppressed) and its blocks in
\* supplied order: the sequence depends on the builder alone, not on the
\* pass; the passes differ in the text of the page cells.
C24_SameOrderInBothPasses ==
    Populated =>
        /\ [k \in DOMAIN Listed(elements) |-> Shape(Listed(elements)[k])]
               = ListedOrder(builder)
        /\ \A k \in DOMAIN elements :
               elements[k].kind = "SectionMarker" => elements[k].index = elements[k].sec - 1
        /\ \A k \in DOMAIN elements :
               (elements[k].cells # <<>> /\ pass = "discovery") =>
                   \A i \in DOMAIN elements[k].cells : elements[k].cells[i] = <<"--">>

C24_Witness ==
    /\ Populated /\ pass = "final" /\ passes = <<"discovery", "final">>
    /\ need_toc(builder) /\ builder.render_section_headings
    /\ section_count(builder) = 2
    /\ Len(builder.sections[2]) = 2
    /\ builder.sections[2][1] # builder.sections[2][2]
    /\ TocTable.cells[2] # <<"--">>

TocTablePos == CHOOSE k \in DOMAIN elements : elements[k].kind = "TableLayout"

\* C25: the table of contents has one row per section, in document order;
\* the left cell is the section's title, the right cell the page number
\* recorded for the section by the discovery pass, or the placeholder when
\* none was recorded; in the discovery pass every row shows the
\* placeholder; a forced page break follows the table, and the first
\* section follows the page break.
C25_TocRows ==
    (Populated /\ TocRendered) =>
        /\ Len(TocTable.titles) = section_count(builder)
        /\ Len(TocTable.cells) = section_count(builder)
        /\ TocTable.lines = section_count(builder)
        /\ \A i \in 1..section_count(builder) :
               /\ TocTable.titles[i] = i
               /\ TocTable.cells[i] =
                      IF pass = "final" /\ IsSome(recorded_pages[i])
                      THEN <<"page", Unwrap(recorded_pages[i])>>
                      ELSE <<"--">>
               /\ pass = "discovery" => TocTable.cells[i] = <<"--">>
        /\ elements[TocTablePos + 1].kind = "PageBreak"
        /\ elements[TocTablePos + 2].sec = 1
        /\ \A k \in 1..TocTablePos : elements[k].sec = 0

C25_Witness ==
    /\ Populated /\ TocRendered /\ pass = "final"
    /\ section_count(builder) = 2
    /\ TocTable.titles = <<1, 2>>
    /\ TocTable.cells = <<<<"page", 2>>, <<"page", 3>>>>
    /\ elements[TocTablePos + 1].kind = "PageBreak"

\* A tracker as PageTracker::new leaves it: counter 0, every slot empty.
FreshTracker(t) ==
    /\ t.current_page = 0
    /\ Len(t.section_pages) = section_count(builder)
    /\ \A i \in DOMAIN t.section_pages : t.section_pages[i] = None

\* C26: the final pass starts with a tracker of its own, freshly
\* initialised; no step of the final pass changes the tracker of the
\* discovery pass, and no step of the discovery pass touches the tracker
\* of the final pass; the section_start_pages returned are the recordings
\* of the final pass's tracker.
C26_TrackerPerPass ==
    [][/\ (pass # "final" /\ pass' = "final") =>
              (IsSome(final_tracker') => FreshTracker(Unwrap(final_tracker')))
       /\ (pass = "final" /\ pass' = "final") => tracker' = tracker
       /\ pass' = "discovery" => final_tracker' = None
       /\ (pass' = "final" /\ need_tracking(builder) /\ section_count(builder) > 0) =>
              IsSome(final_tracker')
       /\ (pc' = "done" /\ result'.status = "Ok") =>
              Unwrap(result'.section_start_pages) =
                  IF IsSome(final_tracker') THEN Unwrap(final_tracker').section_pages
                  ELSE [i \in 1..section_count(builder) |-> None]]_vars

C26_Witness ==
    /\ pass = "final" /\ pc = "layout"
    /\ IsSome(tracker) /\ IsSome(final_tracker)
    /\ section_count(builder) = 2
    /\ IsSome(Unwrap(tracker).section_pages[2])
    /\ IsSome(Unwrap(final_tracker).section_pages[1])
    /\ Unwrap(final_tracker).section_pages[2] = None
    /\ Unwrap(final_tracker).current_page < Unwrap(tracker).current_page

\* Every slot a tracker holds was written on page 1 or later.
SlotsAfterFirstPage(t) ==
    IsSome(t) =>
        \A i \in DOMAIN Unwrap(t).section_pages :
            IsSome(Unwrap(t).section_pages[i]) => Unwrap(Unwrap(t).section_pages[i]) >= 1

\* C28: after a successful render with page tracking active and at least
\* one section every entry of section_start_pages is Some(p) with p >= 1;
\* in no pass is a slot written before the first page has been decorated.
C28_EverySectionRecorded ==
    /\ SlotsAfterFirstPage(tracker)
    /\ SlotsAfterFirstPage(final_tracker)
    /\ (Succeeded /\ TrackingActive /\ section_count(builder) > 0) =>
           \A i \in 1..section_count(builder) :
               /\ IsSome(StartPages[i])
               /\ Unwrap(StartPages[i]) >= 1
               /\ Unwrap(StartPages[i]) <= Unwrap(result.bytes).pages

C28_Witness ==
    /\ Succeeded /\ TrackingActive
    /\ ~builder.include_toc /\ builder.cover = None
    /\ section_count(builder) = 2
    /\ StartPages[1] = Some(1)
    /\ IsSome(StartPages[2])
    /\ Unwrap(StartPages[2]) = Unwrap(result.bytes).pages
    /\ Unwrap(StartPages[2]) > 1

\* ---------------------------------------------------------- page decorator
\* Height left for the footer band and the body by the last call.
BelowHeader ==
    (IF IsSome(decorator.margins) THEN PageHeight - Unwrap(decorator.margins) ELSE PageHeight)
    - (IF decorator.header THEN decorated.header_result.size ELSE 0)

\* The header element of the last call was rendered and reported overflow.
HeaderOverflow ==
    decorator.header /\ decorated.header_result.ok /\ decorated.header_result.has_more

\* The footer element of the last call was rendered and reported overflow.
FooterOverflow ==
    /\ IsSome(decorator.footer)
    /\ ~(decorator.header /\ ~decorated.header_result.ok)
    /\ Unwrap(decorator.footer) <= BelowHeader
    /\ decorated.footer_result.ok /\ decorated.footer_result.has_more

\* The footer's fixed height exceeds the area left for it.
FooterTooHigh ==
    /\ IsSome(decorator.footer)
    /\ ~(decorator.header /\ ~decorated.header_result.ok)
    /\ Unwrap(decorator.footer) > BelowHeader

\* C27 as stated: a footer whose fixed height exceeds the available area, a
\* footer element that reports overflow and a header element that reports
\* overflow each make decorate_page fail on that page.
C27_BandOverflowIsFatal ==
    decorated.status # "none" =>
        /\ FooterTooHigh => decorated.status = "Err"
        /\ FooterOverflow => decorated.status = "Err"
        /\ HeaderOverflow => decorated.status = "Err"

\* What holds of the footer: both footer cases are fatal, with their errors.
C27_FooterOverflowIsFatal ==
    decorated.status # "none" =>
        /\ FooterTooHigh =>
               /\ decorated.status = "Err"
               /\ decorated.error = "Footer height exceeds available space"
        /\ FooterOverflow =>
               /\ decorated.status = "Err"
               /\ decorated.error = "Footer element does not fit into the reserved space"

\* A header that overflowed on a page that was decorated all the same.
C27_HeaderTruncated ==
    /\ HeaderOverflow
    /\ decorated.status = "Ok"
    /\ decorated.area > 0
    /\ decorator.page = MaxDecorated

\* The step is a page decoration of the running pass.
Decoration == pc = "decorate" /\ pc' \in {"layout", "done"}

\* What a step may do to a tracker: its counter is written by a page
\* decoration only, its slots by the rendering of a section marker only.
TrackerWrittenBy(t, u) ==
    (IsSome(t) /\ IsSome(u)) =>
        /\ Unwrap(u).current_page # Unwrap(t).current_page => Decoration
        /\ Unwrap(u).section_pages # Unwrap(t).section_pages =>
               /\ pc = "layout"
               /\ elements[render_idx].kind = "SectionMarker"

\* C29: within a pass the page counter starts at 0, increases by exactly 1
\* on each page decoration and at no other step, and never decreases; the
\* tracker's current_page equals the decorator's page number from the
\* start of the pass on, so after every decoration; the counter is
\* written only by the page callback and the slots only by section markers.
C29_PageCounter ==
    [][/\ pass' # pass => page' = 0
       /\ pass' = pass => page' = (IF Decoration THEN page + 1 ELSE page)
       /\ IsSome(ActiveTracker') => Unwrap(ActiveTracker').current_page = page'
       /\ TrackerWrittenBy(tracker, tracker')
       /\ TrackerWrittenBy(final_tracker, final_tracker')]_vars

C29_Witness ==
    /\ pass = "discovery" /\ pc = "layout"
    /\ page = 3
    /\ Unwrap(tracker).current_page = 3
    /\ \E i \in DOMAIN Unwrap(tracker).section_pages :
           Unwrap(tracker).section_pages[i] = Some(2)

====
